---- MODULE Spec2Model ----
(***************************************************************************)
(* certifai: provenance lifecycle of code artifacts.                       *)
(*                                                                         *)
(* A source file is a sequence of lines.  A line is a record               *)
(*     [indent, k, key, val]                                               *)
(* with k the kind of the line:                                            *)
(*     "def"     a function or class header with its body; key is the      *)
(*               simple name and val the version of the body's tokens      *)
(*     "call"    the one-line decorator  @certifai()                       *)
(*     "open"    the first line  @certifai(  of a decorator block          *)
(*     "kw"      a keyword line  key=val,                                  *)
(*     "seq"     the line  key=[  that opens history or extras             *)
(*     "item"    one element of the list named key                         *)
(*     "endseq"  the line  ],                                              *)
(*     "close"   the last line  )  of a decorator block                    *)
(* and indent the number of indentation units in front of the line.        *)
(* Line numbers are positions in the sequence, as in str.splitlines().     *)
(*                                                                         *)
(* Hashes are modelled as the value they hash (SHA-1 and SHA-256 taken as  *)
(* injective): compute_digest is the projected six-field tuple and         *)
(* compute_artifact_digest the dedented lines of the hashed span.          *)
(***************************************************************************)
EXTENDS Integers, Sequences, FiniteSets, TLC

\* ------------------------------------------------------------------ bounds
\* Body versions of an artifact are 0..MaxBody.
MaxBody == 1
\* Steps (program runs, edits of the source, clock ticks) in one behaviour.
MaxOps == 4

\* ------------------------------------------------------------ basic values
\* Python's None for an optional string field.
None == "<none>"
\* extract_digest of a history entry without a "digest=<40 hex>" token.
NoDigest == None

Max(S) == CHOOSE x \in S : \A y \in S : y <= x
Min(S) == CHOOSE x \in S : \A y \in S : x <= y

\* A local variable of the code: F applied to the value v, which is
\* computed once however often F uses it.
With(v, F(_)) == F(v)

\* Truthiness of an optional string ("if self.ai_composed:").
Truthy(s) == s # None /\ s # ""

\* str.lower() on the identifiers the model uses.
Lower(s) ==
    CASE s = "PENDING" -> "pending"
      [] s = "Pending" -> "pending"
      [] OTHER -> s

\* str.strip().lower() on the scrutiny strings the model uses.
StripLower(s) ==
    CASE s = " High " -> "high"
      [] s = "HIGH" -> "high"
      [] s = "Medium" -> "medium"
      [] s = " low" -> "low"
      [] s = "AUTO" -> "auto"
      [] OTHER -> s

ScrutinyValues == {"auto", "low", "medium", "high"}

\* ScrutinyLevel.from_string: the recognised level, or None.
from_string(value) ==
    IF value = None THEN None
    ELSE IF StripLower(value) \in ScrutinyValues THEN StripLower(value)
    ELSE None

\* Position of a level in [AUTO, LOW, MEDIUM, HIGH].
order_index(level) ==
    CASE level = "auto" -> 0
      [] level = "low" -> 1
      [] level = "medium" -> 2
      [] level = "high" -> 3

\* ------------------------------------------------------------- TagMetadata
\* TagMetadata(): every field at its default.
EmptyMeta ==
    [ai_composed |-> None, human_certified |-> None, agent_certified |-> None,
     scrutiny |-> None, date |-> None, notes |-> None, history |-> <<>>,
     extras |-> <<>>, done |-> FALSE, reviewers |-> <<>>]

\* TagMetadata.agent_ids: agent_certified, then the agent reviewers not yet listed.
RECURSIVE agent_ids_from(_, _)
agent_ids_from(ids, reviewers) ==
    IF reviewers = <<>> THEN ids
    ELSE LET r == Head(reviewers)
             more == IF r.kind = "agent" /\ r.id # ""
                        /\ ~(\E i \in 1..Len(ids) : ids[i] = r.id)
                     THEN Append(ids, r.id) ELSE ids
         IN agent_ids_from(more, Tail(reviewers))

agent_ids(m) ==
    agent_ids_from(IF Truthy(m.agent_certified) THEN <<m.agent_certified>> ELSE <<>>,
                   m.reviewers)

\* TagMetadata.to_decorator_payload: only truthy fields enter the payload.
\* The record holds every keyword; None, <<>> and FALSE stand for a keyword
\* that is not in the payload.
to_decorator_payload(m) ==
    [ai_composed |-> IF Truthy(m.ai_composed) THEN m.ai_composed ELSE None,
     human_certified |-> IF Truthy(m.human_certified) THEN m.human_certified ELSE None,
     agent_certified |-> IF Truthy(m.agent_certified) THEN m.agent_certified ELSE None,
     scrutiny |-> m.scrutiny,
     date |-> IF Truthy(m.date) THEN m.date ELSE None,
     notes |-> IF Truthy(m.notes) THEN m.notes ELSE None,
     done |-> m.done,
     history |-> m.history,
     extras |-> m.extras,
     reviewers |-> m.reviewers,
     agents |-> IF m.reviewers = <<>> THEN agent_ids(m) ELSE <<>>]

\* The keyword record of a decorator call without keywords.
NoKwargs == to_decorator_payload(EmptyMeta)

\* A source line.
Line(indent, k, key, val) == [indent |-> indent, k |-> k, key |-> key, val |-> val]

\* decorators._format_sequence: "name=[", one line per item, "],".
_format_sequence(name, values, indent) ==
    <<Line(indent, "seq", name, 0)>>
    \o [n \in DOMAIN values |-> Line(indent, "item", name, values[n])]
    \o <<Line(indent, "endseq", name, 0)>>

\* The lines of a decorator call with the given keywords, in the order
\* format_metadata_decorator writes them: the five scalar keywords, history
\* and extras as multi-line lists, then what is left of the payload in its
\* insertion order (agent_certified, done, reviewers or agents).
decorator_lines(payload, indent) ==
    LET str(key) == IF payload[key] = None THEN <<>>
                    ELSE <<Line(indent, "kw", key, payload[key])>>
        seq(key) == IF payload[key] = <<>> THEN <<>>
                    ELSE _format_sequence(key, payload[key], indent)
        list(key) == IF payload[key] = <<>> THEN <<>>
                     ELSE <<Line(indent, "kw", key, payload[key])>>
        flag(key) == IF payload[key] THEN <<Line(indent, "kw", key, TRUE)>> ELSE <<>>
    IN IF payload = NoKwargs THEN <<Line(indent, "call", "", 0)>>
       ELSE <<Line(indent, "open", "", 0)>>
            \o str("ai_composed") \o str("human_certified") \o str("scrutiny")
            \o str("date") \o str("notes")
            \o seq("history") \o seq("extras")
            \o str("agent_certified") \o flag("done")
            \o list("reviewers") \o list("agents")
            \o <<Line(indent, "close", "", 0)>>

\* decorators.format_metadata_decorator
format_metadata_decorator(metadata, indent) ==
    decorator_lines(to_decorator_payload(metadata), indent)

\* The keywords of the decorator call written on the given lines
\* (node.keywords with _literal_value and _normalize_sequence applied).
decorator_kwargs(block) ==
    LET at(key) == {i \in DOMAIN block : block[i].k = "kw" /\ block[i].key = key}
        kw(key, absent) == IF at(key) = {} THEN absent ELSE block[Max(at(key))].val
        items(key) == SelectSeq(block, LAMBDA l : l.k = "item" /\ l.key = key)
        seq(key) == [n \in DOMAIN items(key) |-> items(key)[n].val]
    IN [ai_composed |-> kw("ai_composed", None),
        human_certified |-> kw("human_certified", None),
        agent_certified |-> kw("agent_certified", None),
        scrutiny |-> kw("scrutiny", None),
        date |-> kw("date", None),
        notes |-> kw("notes", None),
        done |-> kw("done", FALSE),
        history |-> seq("history"),
        extras |-> seq("extras"),
        reviewers |-> kw("reviewers", <<>>),
        agents |-> kw("agents", <<>>)]

\* TagMetadata.from_decorator_kwargs with the seven keywords that
\* metadata_from_decorator passes; the other parameters keep their defaults.
from_decorator_kwargs(ai_composed, human_certified, scrutiny, date, notes, history, extras) ==
    [ai_composed |-> ai_composed,
     human_certified |-> IF human_certified = "" THEN "pending" ELSE human_certified,
     agent_certified |-> None,
     scrutiny |-> from_string(scrutiny),
     date |-> date,
     notes |-> notes,
     history |-> history,
     extras |-> extras,
     done |-> FALSE,
     reviewers |-> <<>>]

\* decorators.metadata_from_decorator: reads ai_composed, human_certified,
\* scrutiny, date, notes, history and extras from the call's keywords; the
\* keywords agent_certified, done, reviewers and agents are not passed on.
metadata_from_decorator(block) ==
    With(decorator_kwargs(block), LAMBDA kwargs :
        from_decorator_kwargs(kwargs.ai_composed, kwargs.human_certified, kwargs.scrutiny,
                              kwargs.date, kwargs.notes, kwargs.history, kwargs.extras))

\* TagMetadata.has_metadata
has_metadata(m) ==
    \/ Truthy(m.ai_composed)
    \/ Truthy(m.human_certified)
    \/ Truthy(m.agent_certified)
    \/ Truthy(m.notes)
    \/ m.history # <<>>
    \/ m.extras # <<>>
    \/ m.reviewers # <<>>

\* TagMetadata.is_pending_certification
is_pending_certification(m) ==
    IF m.reviewers # <<>>
    THEN ~(\E i \in 1..Len(m.reviewers) :
              /\ m.reviewers[i].kind = "human"
              /\ m.reviewers[i].id # ""
              /\ Lower(m.reviewers[i].id) # "pending")
    ELSE ~(Truthy(m.human_certified) /\ Lower(m.human_certified) # "pending")

\* TagMetadata.add_reviewer
add_reviewer(m, reviewer) ==
    [m EXCEPT
        !.reviewers = Append(SelectSeq(@, LAMBDA e : ~(e.kind = reviewer.kind
                                                       /\ e.id = reviewer.id)),
                             reviewer),
        !.human_certified = IF reviewer.kind = "human" THEN reviewer.id ELSE @,
        !.agent_certified = IF reviewer.kind = "agent" THEN reviewer.id ELSE @]

\* ----------------------------------------------------------------- history
\* "x or ''" in compute_digest.
OrEmpty(s) == IF s = None THEN "" ELSE s

\* str.join
RECURSIVE join(_, _)
join(sep, parts) ==
    IF parts = <<>> THEN ""
    ELSE IF Len(parts) = 1 THEN parts[1]
    ELSE parts[1] \o sep \o join(sep, Tail(parts))

\* A digest that leaves the notes out of the hashed text.
compute_digest_without_notes(m) ==
    join("|", <<OrEmpty(m.ai_composed), OrEmpty(m.human_certified), OrEmpty(m.scrutiny),
                OrEmpty(m.date), "", join("\n", m.extras)>>)

\* history.compute_digest: SHA-1 of the six projected fields joined by "|",
\* the extras joined by a newline.  The digest is modelled as the hashed text.
compute_digest(m) ==
    join("|", <<OrEmpty(m.ai_composed), OrEmpty(m.human_certified), OrEmpty(m.scrutiny),
                OrEmpty(m.date), OrEmpty(m.notes), join("\n", m.extras)>>)

\* history.extract_digest of history[0]; an empty history gives no entry,
\* and an entry without a digest token gives no digest.
extract_digest(history) == IF history = <<>> THEN NoDigest ELSE history[1].digest

\* datetime.isoformat() of the clock value.
isoformat(t) == "t" \o ToString(t)

\* history.build_history_entry; no git repository is found, so the blame
\* suffix is "last_commit=unknown".
build_history_entry(m, t, action) ==
    [ts |-> isoformat(t), digest |-> compute_digest(m), action |-> action,
     commit |-> "unknown"]

\* ------------------------------------------------------------------ parser
F1 == "a.py"
F2 == "b.py"
Files == {F1, F2}

\* What a path holds when there is no file under it; reading it raises
\* FileNotFoundError.
NoFile == <<[indent |-> 0, k |-> "absent", key |-> "", val |-> 0]>>

\* Path.exists
exists(fs, path) == fs[path] # NoFile

\* The line numbers of the definitions of a file.
DefLines(lines) == {i \in DOMAIN lines : lines[i].k = "def"}

\* The last definition line above line i, or 0.
PrevDef(lines, i) ==
    LET above == {j \in DefLines(lines) : j < i}
    IN IF above = {} THEN 0 ELSE Max(above)

\* _ArtifactVisitor._artifact_start_line: the first decorator line of the
\* definition at line i, or line i when it has no decorator.  The lines
\* between two definitions are the decorators of the second.
_artifact_start_line(lines, i) == PrevDef(lines, i) + 1

\* parser._indent_for_line
_indent_for_line(lines, line_number) ==
    IF 1 <= line_number /\ line_number <= Len(lines) THEN lines[line_number].indent ELSE 0

\* ast end_lineno of the definition at line i: the last line nested in it.
end_lineno(lines, i) ==
    LET defs == DefLines(lines)
        after == {d \in defs : d > i /\ lines[d].indent <= lines[i].indent}
        inside == {j \in defs : j >= i /\ (after = {} \/ j < Min(after))}
    IN Max(inside)

\* The qualified name built from _qualname_parts: the names of the enclosing
\* definitions and the definition's own, joined by ".".
RECURSIVE qualname(_, _)
qualname(lines, i) ==
    LET outer == {j \in DefLines(lines) : j < i /\ lines[j].indent < lines[i].indent}
    IN IF outer = {} THEN lines[i].key
       ELSE qualname(lines, Max(outer)) \o "." \o lines[i].key

\* DecoratorBlock of a definition without a @certifai decorator.
NoDecorator == [present |-> FALSE, start_line |-> 0, end_line |-> 0, lines |-> <<>>]

\* parser._metadata_decorator_block: the first @certifai decorator of the
\* decorator list, from its first to its last line.
_metadata_decorator_block(lines, i) ==
    With({d \in _artifact_start_line(lines, i)..(i - 1) : lines[d].k \in {"open", "call"}},
         LAMBDA starts :
    IF starts = {} THEN NoDecorator
    ELSE With(Min(starts), LAMBDA start_line :
         With({c \in start_line..(i - 1) : lines[c].k = "close"}, LAMBDA closes :
         With(IF lines[start_line].k = "call" THEN start_line
              ELSE IF closes = {} THEN i - 1
              ELSE Min(closes), LAMBDA end_line :
            [present |-> TRUE, start_line |-> start_line, end_line |-> end_line,
             lines |-> SubSeq(lines, start_line, end_line)]))))

\* _ArtifactVisitor._visit_named_node: the CodeArtifact of the definition at line i.
_visit_named_node(path, lines, i) ==
    With(_metadata_decorator_block(lines, i), LAMBDA decorator :
    With(_artifact_start_line(lines, i), LAMBDA start_line :
       [name |-> qualname(lines, i),
        filepath |-> path,
        lineno |-> i,
        end_lineno |-> end_lineno(lines, i),
        start_line |-> start_line,
        tags |-> IF decorator.present THEN metadata_from_decorator(decorator.lines)
                 ELSE EmptyMeta,
        indent |-> _indent_for_line(lines, start_line),
        decorator |-> decorator]))

\* The ascending sequence of the elements of a set of numbers.
RECURSIVE Ascending(_)
Ascending(S) == IF S = {} THEN <<>> ELSE <<Min(S)>> \o Ascending(S \ {Min(S)})

\* Whether lines lo..hi are a run of complete @certifai decorators at the
\* given indentation.
RECURSIVE DecoratorsOk(_, _, _, _)
DecoratorsOk(lines, lo, hi, indent) ==
    IF lo > hi THEN TRUE
    ELSE IF lines[lo].indent # indent THEN FALSE
    ELSE IF lines[lo].k = "call" THEN DecoratorsOk(lines, lo + 1, hi, indent)
    ELSE IF lines[lo].k = "open"
    THEN \E close \in (lo + 1)..hi :
            /\ lines[close].k = "close"
            /\ \A j \in (lo + 1)..(close - 1) :
                  lines[j].k \in {"kw", "seq", "item", "endseq"}
            /\ DecoratorsOk(lines, close + 1, hi, indent)
    ELSE FALSE

\* Whether ast.parse accepts the file: it ends with a definition, every
\* other line belongs to a decorator of the definition below it, and a
\* nested definition sits one level inside the definition above it.
Parses(lines) ==
    /\ lines # <<>> => lines[Len(lines)].k = "def"
    /\ \A i \in DefLines(lines) :
          /\ DecoratorsOk(lines, PrevDef(lines, i) + 1, i - 1, lines[i].indent)
          /\ IF PrevDef(lines, i) = 0 THEN lines[i].indent = 0
             ELSE lines[i].indent <= lines[PrevDef(lines, i)].indent + 1

\* parser.parse_file: the artifacts of a file, sorted by start line.
parse_file(path, lines) ==
    LET defs == Ascending(DefLines(lines))
    IN [n \in DOMAIN defs |-> _visit_named_node(path, lines, defs[n])]

\* ------------------------------------------------------------------ digest
\* digest._artifact_source: the lines from artifact.start_line (the first
\* decorator line) through the end line, dedented.
_artifact_source(lines, artifact) ==
    LET start_index == IF artifact.start_line - 1 > 0 THEN artifact.start_line - 1 ELSE 0
        end_line == IF artifact.end_lineno > artifact.lineno THEN artifact.end_lineno
                    ELSE artifact.lineno
        last_line_index == (IF Len(lines) < end_line THEN Len(lines) ELSE end_line) - 1
    IN With(SubSeq(lines, start_index + 1, last_line_index + 1), LAMBDA snippet :
          IF snippet = <<>> THEN <<>>
          ELSE With(Min({snippet[n].indent : n \in DOMAIN snippet}), LAMBDA margin :
                  [n \in DOMAIN snippet |-> [snippet[n] EXCEPT !.indent = @ - margin]]))

\* digest.compute_artifact_digest: SHA-256 of the snippet's ast dump,
\* modelled as the hashed snippet.
compute_artifact_digest(lines, artifact) == _artifact_source(lines, artifact)

\* ----------------------------------------------------------------- mutator
\* lines[start_idx:end_idx] = new_lines
splice(lines, start_idx, end_idx, new_lines) ==
    LET lo == IF start_idx > Len(lines) THEN Len(lines) ELSE start_idx
        hi == IF end_idx > Len(lines) THEN Len(lines)
              ELSE IF end_idx < lo THEN lo ELSE end_idx
    IN SubSeq(lines, 1, lo) \o new_lines \o SubSeq(lines, hi + 1, Len(lines))

\* The updates in the order the caller passed them.
in_passed_order(updates) == updates

\* sorted(updates, key=start_line, reverse=True); an update is a record
\* [artifact, metadata].
RECURSIVE by_start_line_reversed(_)
by_start_line_reversed(updates) ==
    IF updates = <<>> THEN <<>>
    ELSE With(Max({updates[n].artifact.start_line : n \in DOMAIN updates}), LAMBDA top :
         With(Min({x \in DOMAIN updates : updates[x].artifact.start_line = top}), LAMBDA n :
            <<updates[n]>>
            \o by_start_line_reversed(SubSeq(updates, 1, n - 1)
                                      \o SubSeq(updates, n + 1, Len(updates)))))

\* metadata.update_metadata_blocks, the loop over the sorted updates.
RECURSIVE update_loop(_, _)
update_loop(acc, updates) ==
    IF updates = <<>> THEN acc
    ELSE LET artifact == Head(updates).artifact
             new_lines == format_metadata_decorator(Head(updates).metadata,
                                                           artifact.indent)
         IN IF ~artifact.decorator.present THEN update_loop(acc, Tail(updates))
            ELSE update_loop(
                    [lines |-> splice(acc.lines, artifact.decorator.start_line - 1,
                                      artifact.decorator.end_line, new_lines),
                     changed |-> TRUE],
                    Tail(updates))

\* metadata.update_metadata_blocks: every listed artifact that has a
\* decorator block gets it replaced, from the bottom of the file upwards.
\* Returns the new lines and whether the file was written.
update_metadata_blocks(lines, updates) ==
    update_loop([lines |-> lines, changed |-> FALSE], by_start_line_reversed(updates))

\* metadata.insert_metadata_block: a new block at the artifact's start line.
insert_metadata_block(lines, artifact, metadata) ==
    [lines |-> splice(lines, artifact.start_line - 1, artifact.start_line - 1,
                      format_metadata_decorator(metadata, artifact.indent)),
     changed |-> TRUE]

\* ---------------------------------------------------------------- registry
\* Every registry key (filepath, qualified_name) of the modelled files, in
\* the order save_registry sorts them.
AllKeys == << <<F1, "A">>, <<F1, "A.m">>, <<F2, "f">> >>

\* registry.registry_key
registry_key(artifact) == <<artifact.filepath, artifact.name>>

\* RegistryEntry.from_artifact_full: the entry of a finalized artifact.
from_artifact_full(artifact, metadata, digest, t, include_reviewers) ==
    [filepath |-> artifact.filepath,
     qualified_name |-> artifact.name,
     digest |-> digest,
     human_certified |-> OrEmpty(metadata.human_certified),
     scrutiny |-> metadata.scrutiny,
     ai_composed |-> metadata.ai_composed,
     finalized_at |-> isoformat(t),
     date |-> metadata.date,
     notes |-> metadata.notes,
     history |-> metadata.history,
     reviewers |-> IF include_reviewers THEN metadata.reviewers ELSE <<>>,
     lifecycle_history |->
        <<[event |-> "finalized", timestamp |-> isoformat(t), digest |-> digest]>>]

\* RegistryEntry.from_artifact: calls from_artifact_full with include_reviewers=False.
from_artifact(artifact, metadata, digest, t) ==
    from_artifact_full(artifact, metadata, digest, t, FALSE)

\* RegistryStore(): the empty in-memory store.  active maps keys to entries,
\* order is the dict's insertion order, history the archive list.
EmptyStore == [active |-> <<>>, order |-> <<>>, history |-> <<>>]

\* The registry file before the first save (load_registry then returns RegistryStore()).
EmptyRegistryFile == [artifacts |-> <<>>, history |-> <<>>]

\* registry.load_registry: one entry per item of the "artifacts" list, keyed
\* by (filepath, qualified_name), and the "history" list.
load_registry(regfile) ==
    LET keyOf(e) == <<e.filepath, e.qualified_name>>
        keys == {keyOf(regfile.artifacts[n]) : n \in DOMAIN regfile.artifacts}
    IN [active |-> [k \in keys |->
                      regfile.artifacts[Max({x \in DOMAIN regfile.artifacts :
                                                keyOf(regfile.artifacts[x]) = k})]],
        order |-> [n \in DOMAIN regfile.artifacts |-> keyOf(regfile.artifacts[n])],
        history |-> regfile.history]

\* registry.save_registry: the entries sorted by (filepath, qualified_name),
\* and the archive list.
save_registry(store) ==
    LET sorted == SelectSeq(AllKeys, LAMBDA k : k \in DOMAIN store.active)
    IN [artifacts |-> [n \in DOMAIN sorted |-> store.active[sorted[n]]],
        history |-> store.history]

\* registry[key] = entry (dict assignment: a present key keeps its place).
store_put(store, key, entry) ==
    [store EXCEPT
        !.active = [k \in DOMAIN store.active \cup {key} |->
                       IF k = key THEN entry ELSE store.active[k]],
        !.order = IF key \in DOMAIN store.active THEN @ ELSE Append(@, key)]

\* registry.pop(key, None)
store_pop(store, key) ==
    [store EXCEPT
        !.active = [k \in DOMAIN store.active \ {key} |-> store.active[k]],
        !.order = SelectSeq(@, LAMBDA k : k # key)]

\* registry.update_registry: the (artifact, entry) pairs of one file, in order.
RECURSIVE update_registry(_, _)
update_registry(store, entries) ==
    IF entries = <<>> THEN store
    ELSE update_registry(
            store_put(store, registry_key(Head(entries).artifact), Head(entries).entry),
            Tail(entries))

\* A lifecycle event put in front of the list.
prepend_lifecycle_event(entry, event, t, reason, old_digest, new_digest) ==
    [entry EXCEPT !.lifecycle_history =
        <<[event |-> event, timestamp |-> isoformat(t), reason |-> reason,
           old_digest |-> old_digest, new_digest |-> new_digest]>> \o @]

\* registry.append_lifecycle_event with the keyword arguments of a reopening.
append_lifecycle_event(entry, event, t, reason, old_digest, new_digest) ==
    [entry EXCEPT !.lifecycle_history =
        Append(@, [event |-> event, timestamp |-> isoformat(t), reason |-> reason,
                   old_digest |-> old_digest, new_digest |-> new_digest])]

\* An archiving that keeps only the newest record in the archive list.
archive_keeping_newest(store, key, entry, reason, old_digest, new_digest, t) ==
    [store EXCEPT
       !.history = <<[filepath |-> entry.filepath,
                      qualified_name |-> entry.qualified_name,
                      archived_at |-> isoformat(t),
                      reason |-> reason,
                      old_digest |-> old_digest,
                      new_digest |-> new_digest,
                      entry |-> append_lifecycle_event(entry, "reopened", t, reason,
                                                       old_digest, new_digest)]>>]

\* registry.archive_registry_entry: the entry gets a "reopened" event and a
\* copy of it goes to the end of the archive list.
archive_registry_entry(store, key, entry, reason, old_digest, new_digest, t) ==
    With(append_lifecycle_event(entry, "reopened", t, reason, old_digest, new_digest),
         LAMBDA marked :
       [store EXCEPT
          !.active = [k \in DOMAIN store.active |->
                        IF k = key THEN marked ELSE store.active[k]],
          !.history = Append(@, [filepath |-> entry.filepath,
                                 qualified_name |-> entry.qualified_name,
                                 archived_at |-> isoformat(t),
                                 reason |-> reason,
                                 old_digest |-> old_digest,
                                 new_digest |-> new_digest,
                                 entry |-> marked])])

\* --------------------------------------------------------------- finalize
\* An eligibility test that asks only for an artifact that is not done.
finalizable_without_certifier(artifact) == ~artifact.tags.done

\* finalize._finalizable
_finalizable(artifact) ==
    IF artifact.tags.done THEN FALSE
    ELSE IF ~Truthy(artifact.tags.human_certified)
            \/ Lower(artifact.tags.human_certified) = "pending" THEN FALSE
    ELSE TRUE

\* finalize._finalized_metadata
_finalized_metadata(original, t) ==
    [original EXCEPT !.done = TRUE, !.notes = None, !.history = <<>>,
                     !.date = IF Truthy(@) THEN @ ELSE isoformat(t)]

\* finalize.finalize, the body of the loop for one path.  acc holds the
\* files as written so far, the in-memory registry, the finalized list, the
\* set of files written and whether an exception ended the call.
finalize_file(acc, path, t) ==
    With(acc.files[path], LAMBDA lines :
    With(SelectSeq(parse_file(path, lines), _finalizable), LAMBDA chosen :
    With([n \in DOMAIN chosen |->
            [artifact |-> chosen[n],
             metadata |-> _finalized_metadata(chosen[n].tags, t)]], LAMBDA updates :
    With([n \in DOMAIN chosen |->
            [artifact |-> chosen[n],
             entry |-> from_artifact(chosen[n], chosen[n].tags,
                                     compute_artifact_digest(lines, chosen[n]), t)]],
         LAMBDA registry_updates :
    With(update_metadata_blocks(lines, updates), LAMBDA res :
       IF ~Parses(lines) THEN [acc EXCEPT !.err = TRUE]
       ELSE IF updates = <<>> THEN acc
       ELSE IF res.changed
       THEN [acc EXCEPT !.files[path] = res.lines,
                        !.store = update_registry(@, registry_updates),
                        !.ret = @ \o [n \in DOMAIN chosen |-> registry_key(chosen[n])],
                        !.written = @ \cup {path}]
       ELSE acc)))))

RECURSIVE finalize_loop(_, _, _)
finalize_loop(acc, paths, t) ==
    IF paths = <<>> \/ acc.err THEN acc
    ELSE finalize_loop(finalize_file(acc, Head(paths), t), Tail(paths), t)

\* finalize.finalize: load the registry, process the paths in order, save
\* the registry when something was finalized.  A file that does not parse
\* raises out of the call, before the registry is saved.
finalize(fs, regfile, paths, t) ==
    With(finalize_loop([files |-> fs, store |-> load_registry(regfile),
                        ret |-> <<>>, written |-> {}, err |-> FALSE], paths, t),
         LAMBDA acc :
       [files |-> acc.files,
        regfile |-> IF acc.ret # <<>> /\ ~acc.err THEN save_registry(acc.store) ELSE regfile,
        ret |-> IF acc.err THEN <<>> ELSE acc.ret,
        written |-> acc.written,
        err |-> acc.err])

\* ----------------------------------------------------------------- checks
\* _metadata_from_entry as it would be if the reopened annotation kept the
\* certification of the archived entry.
metadata_from_entry_keeping_certifier(entry) ==
    [EmptyMeta EXCEPT !.ai_composed = entry.ai_composed,
                      !.human_certified = entry.human_certified]

\* checks._metadata_from_entry
_metadata_from_entry(entry) == [EmptyMeta EXCEPT !.ai_composed = entry.ai_composed]

\* checks.reconcile_registry, the body of the loop for one registry item:
\* the entry of a missing file or of a name the file no longer defines is
\* dropped from the in-memory registry.
reconcile_entry(acc, key, t) ==
    With(acc.store.active[key], LAMBDA entry :
    With(acc.files[key[1]], LAMBDA lines :
    With(parse_file(key[1], lines), LAMBDA artifacts :
    With({n \in DOMAIN artifacts : artifacts[n].name = key[2]}, LAMBDA named :
       IF ~exists(acc.files, key[1]) THEN [acc EXCEPT !.store = store_pop(@, key)]
       ELSE IF ~Parses(lines) THEN [acc EXCEPT !.err = TRUE]
       ELSE IF named = {} THEN [acc EXCEPT !.store = store_pop(@, key)]
       ELSE
    With(artifacts[Max(named)], LAMBDA artifact :
    With(compute_artifact_digest(lines, artifact), LAMBDA digest :
       IF digest = entry.digest THEN acc
       ELSE
    With(_metadata_from_entry(entry), LAMBDA metadata :
    With(update_metadata_blocks(lines, <<[artifact |-> artifact,
                                          metadata |-> metadata]>>), LAMBDA updated :
       [acc EXCEPT
          !.files[key[1]] = IF updated.changed THEN updated.lines
                            ELSE insert_metadata_block(lines, artifact, metadata).lines,
          !.store = store_pop(
                       archive_registry_entry(@, key, entry, "code_changed",
                                              entry.digest, digest, t),
                       key),
          !.updated_files = @ \cup {key[1]}]))))))))

RECURSIVE reconcile_loop(_, _, _)
reconcile_loop(acc, keys, t) ==
    IF keys = <<>> \/ acc.err THEN acc
    ELSE reconcile_loop(reconcile_entry(acc, Head(keys), t), Tail(keys), t)

\* sorted(updated_files)
SortedFiles(S) == SelectSeq(<<F1, F2>>, LAMBDA f : f \in S)

\* checks.reconcile_registry: nothing is done for an empty registry; the
\* registry is saved only when a file was updated.
reconcile_registry(fs, regfile, t) ==
    With(load_registry(regfile), LAMBDA registry :
       IF DOMAIN registry.active = {}
       THEN [files |-> fs, regfile |-> regfile, ret |-> <<>>, written |-> {}, err |-> FALSE]
       ELSE
    With(reconcile_loop([files |-> fs, store |-> registry, updated_files |-> {},
                         err |-> FALSE], registry.order, t), LAMBDA acc :
       [files |-> acc.files,
        regfile |-> IF acc.updated_files # {} /\ ~acc.err THEN save_registry(acc.store)
                    ELSE regfile,
        ret |-> IF acc.err THEN <<>> ELSE SortedFiles(acc.updated_files),
        written |-> acc.updated_files,
        err |-> acc.err]))

\* ---------------------------------------------------------------- certify
\* certify._rewrite_metadata_human, the metadata written for one artifact.
human_certified_metadata(tags, reviewer, scrutiny, notes, t) ==
    With([add_reviewer([tags EXCEPT !.done = FALSE],
                       [kind |-> "human", id |-> reviewer, scrutiny |-> scrutiny,
                        notes |-> notes, timestamp |-> isoformat(t)])
            EXCEPT !.human_certified = reviewer,
                   !.scrutiny = scrutiny,
                   !.date = isoformat(t),
                   !.notes = IF Truthy(notes) THEN notes ELSE @,
                   !.done = FALSE], LAMBDA metadata :
       [metadata EXCEPT !.history =
            <<build_history_entry(metadata, t, <<"certified by", reviewer, scrutiny>>)>>])

\* A rewrite that gives up on the whole file when one of the artifacts has
\* no decorator block.
rewrite_metadata_all_or_nothing(lines, artifacts, reviewer, scrutiny, notes, t) ==
    IF \E n \in DOMAIN artifacts : ~artifacts[n].decorator.present
    THEN [lines |-> lines, changed |-> FALSE]
    ELSE update_metadata_blocks(lines,
            [n \in DOMAIN artifacts |->
                [artifact |-> artifacts[n],
                 metadata |-> human_certified_metadata(artifacts[n].tags, reviewer,
                                                       scrutiny, notes, t)]])

\* certify._rewrite_metadata_human: artifacts without a decorator block are
\* skipped; the others get the certified metadata in one file update.
_rewrite_metadata_human(lines, artifacts, reviewer, scrutiny, notes, t) ==
    With(SelectSeq(artifacts, LAMBDA a : a.decorator.present), LAMBDA with_block :
       IF with_block = <<>> THEN [lines |-> lines, changed |-> FALSE]
       ELSE update_metadata_blocks(lines,
               [n \in DOMAIN with_block |->
                   [artifact |-> with_block[n],
                    metadata |-> human_certified_metadata(with_block[n].tags, reviewer,
                                                          scrutiny, notes, t)]]))

\* The artifacts of updates found again in the re-parsed file, by
\* (name, lineno) or else by name.
refreshed_artifacts(path, lines, updates) ==
    With(parse_file(path, lines), LAMBDA refreshed :
    With(SelectSeq(updates, LAMBDA a :
            \E n \in DOMAIN refreshed : refreshed[n].name = a.name), LAMBDA found :
       [n \in DOMAIN found |-> registry_key(found[n])]))

\* certify.certify, the body of the loop for one path.
certify_file(acc, path, reviewer, level, notes, include_existing, t) ==
    With(acc.files[path], LAMBDA lines :
    With(SelectSeq(parse_file(path, lines), LAMBDA a :
            include_existing \/ is_pending_certification(a.tags)), LAMBDA updates :
    With(_rewrite_metadata_human(lines, updates, reviewer, level, notes, t), LAMBDA res :
       IF ~Parses(lines) THEN [acc EXCEPT !.err = TRUE]
       ELSE IF updates = <<>> \/ ~res.changed THEN acc
       ELSE IF Parses(res.lines)
       THEN [acc EXCEPT !.files[path] = res.lines,
                        !.ret = @ \o refreshed_artifacts(path, res.lines, updates),
                        !.written = @ \cup {path}]
       ELSE [acc EXCEPT !.files[path] = res.lines,
                        !.written = @ \cup {path},
                        !.err = TRUE])))

RECURSIVE certify_loop(_, _, _, _, _, _, _)
certify_loop(acc, paths, reviewer, level, notes, include_existing, t) ==
    IF paths = <<>> \/ acc.err THEN acc
    ELSE certify_loop(certify_file(acc, Head(paths), reviewer, level, notes,
                                   include_existing, t),
                      Tail(paths), reviewer, level, notes, include_existing, t)

\* A certify that falls back to AUTO on a scrutiny it does not recognise.
certify_defaulting_scrutiny(fs, paths, reviewer, scrutiny, notes, include_existing, reviewer_kind, t) ==
    With(certify_loop([files |-> fs, ret |-> <<>>, written |-> {}, err |-> FALSE],
                      paths, reviewer,
                      IF from_string(scrutiny) = None THEN "auto" ELSE from_string(scrutiny),
                      notes, include_existing, t), LAMBDA acc :
       [files |-> acc.files, ret |-> IF acc.err THEN <<>> ELSE acc.ret,
        written |-> acc.written, err |-> acc.err])

\* certify.certify: an unrecognised scrutiny raises ValueError before the
\* loop over the paths; reviewer_kind is accepted and not used.
certify(fs, paths, reviewer, scrutiny, notes, include_existing, reviewer_kind, t) ==
    With(from_string(scrutiny), LAMBDA level :
       IF level = None
       THEN [files |-> fs, ret |-> <<>>, written |-> {}, err |-> TRUE]
       ELSE
    With(certify_loop([files |-> fs, ret |-> <<>>, written |-> {}, err |-> FALSE],
                      paths, reviewer, level, notes, include_existing, t), LAMBDA acc :
       [files |-> acc.files, ret |-> IF acc.err THEN <<>> ELSE acc.ret,
        written |-> acc.written, err |-> acc.err]))

\* certify.certify_agent, the metadata written for one artifact.
agent_certified_metadata(tags, agent_id, level, notes, t) ==
    With([tags EXCEPT
            !.agent_certified = agent_id,
            !.scrutiny = level,
            !.date = isoformat(t),
            !.notes = IF Truthy(notes) THEN notes ELSE @,
            !.done = FALSE,
            !.reviewers = Append(@, [kind |-> "agent", id |-> agent_id,
                                     scrutiny |-> level, notes |-> notes,
                                     timestamp |-> isoformat(t)])], LAMBDA metadata :
       [metadata EXCEPT !.history =
            <<build_history_entry(metadata, t, <<"agent", agent_id, "certified", level>>)>>])

\* certify.certify_agent, the body of the loop for one path.
certify_agent_file(acc, path, agent_id, level, notes, include_existing, t) ==
    With(acc.files[path], LAMBDA lines :
    With(SelectSeq(parse_file(path, lines), LAMBDA a :
            include_existing \/ is_pending_certification(a.tags)), LAMBDA updates :
    With(SelectSeq(updates, LAMBDA a : a.decorator.present), LAMBDA with_block :
    With(update_metadata_blocks(lines,
            [n \in DOMAIN with_block |->
                [artifact |-> with_block[n],
                 metadata |-> agent_certified_metadata(with_block[n].tags, agent_id,
                                                       level, notes, t)]]), LAMBDA res :
       IF ~Parses(lines) THEN [acc EXCEPT !.err = TRUE]
       ELSE IF updates = <<>> \/ with_block = <<>> \/ ~res.changed THEN acc
       ELSE IF Parses(res.lines)
       THEN [acc EXCEPT !.files[path] = res.lines,
                        !.ret = @ \o refreshed_artifacts(path, res.lines, updates),
                        !.written = @ \cup {path}]
       ELSE [acc EXCEPT !.files[path] = res.lines,
                        !.written = @ \cup {path},
                        !.err = TRUE]))))

RECURSIVE certify_agent_loop(_, _, _, _, _, _, _)
certify_agent_loop(acc, paths, agent_id, level, notes, include_existing, t) ==
    IF paths = <<>> \/ acc.err THEN acc
    ELSE certify_agent_loop(certify_agent_file(acc, Head(paths), agent_id, level, notes,
                                               include_existing, t),
                            Tail(paths), agent_id, level, notes, include_existing, t)

\* certify.certify_agent: an unrecognised scrutiny raises ValueError before
\* the loop over the paths.
certify_agent(fs, paths, agent_id, scrutiny, notes, include_existing, t) ==
    With(from_string(scrutiny), LAMBDA level :
       IF level = None
       THEN [files |-> fs, ret |-> <<>>, written |-> {}, err |-> TRUE]
       ELSE
    With(certify_agent_loop([files |-> fs, ret |-> <<>>, written |-> {}, err |-> FALSE],
                            paths, agent_id, level, notes, include_existing, t),
         LAMBDA acc :
       [files |-> acc.files, ret |-> IF acc.err THEN <<>> ELSE acc.ret,
        written |-> acc.written, err |-> acc.err]))

\* ------------------------------------------------------------- provenance
\* provenance._ensure_metadata_decorators, the metadata of a new block:
\* pending, with one "annotated" history entry.
annotated_metadata(ai_agent, default_notes, t) ==
    With([EmptyMeta EXCEPT !.ai_composed = ai_agent,
                           !.human_certified = "pending",
                           !.scrutiny = "auto",
                           !.date = isoformat(t),
                           !.notes = default_notes], LAMBDA metadata :
       [metadata EXCEPT !.history = <<build_history_entry(metadata, t, <<"annotated">>)>>])

\* sorted(artifacts, key=start_line, reverse=True)
RECURSIVE artifacts_reversed(_)
artifacts_reversed(artifacts) ==
    IF artifacts = <<>> THEN <<>>
    ELSE With(Max({artifacts[n].start_line : n \in DOMAIN artifacts}), LAMBDA top :
         With(Min({x \in DOMAIN artifacts : artifacts[x].start_line = top}), LAMBDA n :
            <<artifacts[n]>>
            \o artifacts_reversed(SubSeq(artifacts, 1, n - 1)
                                  \o SubSeq(artifacts, n + 1, Len(artifacts)))))

\* provenance._ensure_metadata_decorators, the loop over the sorted artifacts.
RECURSIVE ensure_loop(_, _, _, _, _)
ensure_loop(lines, artifacts, ai_agent, default_notes, t) ==
    IF artifacts = <<>> THEN lines
    ELSE With(Head(artifacts), LAMBDA artifact :
            ensure_loop(splice(lines, artifact.start_line - 1, artifact.start_line - 1,
                               format_metadata_decorator(
                                  annotated_metadata(ai_agent, default_notes, t),
                                  artifact.indent)),
                        Tail(artifacts), ai_agent, default_notes, t))

\* Insertion from the top of the file downwards, with the start lines read
\* before the first insertion.
ensure_in_file_order(lines, artifacts, ai_agent, default_notes, t) ==
    IF lines = <<>> THEN [lines |-> lines, changed |-> FALSE]
    ELSE [lines |-> ensure_loop(lines, artifacts, ai_agent, default_notes, t),
          changed |-> artifacts # <<>>]

\* provenance._ensure_metadata_decorators: a block is inserted at the start
\* line of every given artifact, from the bottom of the file upwards.
_ensure_metadata_decorators(lines, artifacts, ai_agent, default_notes, t) ==
    IF lines = <<>> THEN [lines |-> lines, changed |-> FALSE]
    ELSE [lines |-> ensure_loop(lines, artifacts_reversed(artifacts), ai_agent,
                                default_notes, t),
          changed |-> artifacts # <<>>]

\* A refresh that stamps every annotated artifact, in sync or not.
refresh_history_always(lines, artifacts, t) ==
    With(SelectSeq(artifacts, LAMBDA a : a.decorator.present), LAMBDA annotated :
       IF annotated = <<>> THEN [lines |-> lines, changed |-> FALSE]
       ELSE update_metadata_blocks(lines,
               [n \in DOMAIN annotated |->
                   [artifact |-> annotated[n],
                    metadata |-> [annotated[n].tags EXCEPT !.history =
                                     <<build_history_entry(annotated[n].tags, t, <<>>)>>]]]))

\* provenance._refresh_history_blocks: history becomes one fresh entry for
\* every annotated artifact whose first entry does not carry the digest of
\* its metadata.
_refresh_history_blocks(lines, artifacts, t) ==
    With(SelectSeq(artifacts, LAMBDA a :
            /\ a.decorator.present
            /\ ~(/\ extract_digest(a.tags.history) = compute_digest(a.tags)
                 /\ a.tags.history # <<>>)), LAMBDA stale :
       IF stale = <<>> THEN [lines |-> lines, changed |-> FALSE]
       ELSE update_metadata_blocks(lines,
               [n \in DOMAIN stale |->
                   [artifact |-> stale[n],
                    metadata |-> [stale[n].tags EXCEPT !.history =
                                     <<build_history_entry(stale[n].tags, t, <<>>)>>]]]))

\* provenance.annotate_paths, the body of the loop for one path, under the
\* default policy (enforcement.ignore_unannotated is False).
annotate_file(acc, path, ai_agent, default_notes, t) ==
    With(acc.files[path], LAMBDA lines :
    With(SelectSeq(parse_file(path, lines), LAMBDA a : ~has_metadata(a.tags)),
         LAMBDA needs_update :
    With(IF needs_update # <<>>
         THEN _ensure_metadata_decorators(lines, needs_update, ai_agent, default_notes, t)
         ELSE [lines |-> lines, changed |-> FALSE], LAMBDA ensured :
    With(_refresh_history_blocks(ensured.lines, parse_file(path, ensured.lines), t),
         LAMBDA refreshed :
    With(ensured.changed \/ refreshed.changed, LAMBDA file_changed :
    With(Parses(refreshed.lines), LAMBDA parses_again :
       IF ~Parses(lines) THEN [acc EXCEPT !.err = TRUE]
       ELSE IF ~Parses(ensured.lines)
       THEN [acc EXCEPT !.files[path] = ensured.lines,
                        !.written = @ \cup {path},
                        !.err = TRUE]
       ELSE [acc EXCEPT !.files[path] = refreshed.lines,
                        !.written = IF file_changed THEN @ \cup {path} ELSE @,
                        !.updated_files = IF file_changed /\ parses_again
                                          THEN @ \cup {path} ELSE @,
                        !.err = ~parses_again]))))))

RECURSIVE annotate_loop(_, _, _, _, _)
annotate_loop(acc, paths, ai_agent, default_notes, t) ==
    IF paths = <<>> \/ acc.err THEN acc
    ELSE annotate_loop(annotate_file(acc, Head(paths), ai_agent, default_notes, t),
                       Tail(paths), ai_agent, default_notes, t)

\* provenance.annotate_paths: the files, ProvenanceResult.updated_files and
\* whether a file that does not parse raised out of the call.
annotate_paths(fs, paths, ai_agent, default_notes, t) ==
    With(annotate_loop([files |-> fs, updated_files |-> {}, written |-> {},
                        err |-> FALSE],
                       paths, ai_agent, default_notes, t), LAMBDA acc :
       [files |-> acc.files,
        ret |-> IF acc.err THEN <<>> ELSE SortedFiles(acc.updated_files),
        written |-> acc.written,
        err |-> acc.err])

\* ------------------------------------------------------------------- state
VARIABLES
    files,      \* path -> the lines of the file
    regfile,    \* the registry file: [artifacts, history]
    now,        \* the clock read by datetime.now()
    ops,        \* steps taken so far
    last,       \* the last operation: its inputs, result, files written
    codec,      \* the run of the encode/decode specification
    policy,     \* the policy file: integrations.agents
    procs,      \* the finalize invocations under way: their local variables
    source,     \* the source text whose content digest is taken
    audit       \* the audit log file: its lines

vars == <<files, regfile, now, ops, last, codec, policy, procs, source, audit>>

\* The batches of paths an operation is called with.
PathChoices == {<<F2>>, <<F1, F2>>}

\* An annotation as a reviewer writes it by hand: certified, with a reviewer
\* list and a history line that carries no digest.
HandCertified ==
    [NoKwargs EXCEPT
        !.ai_composed = "gpt",
        !.human_certified = "alice",
        !.history = <<[ts |-> "t0", digest |-> NoDigest, action |-> <<"annotated">>,
                       commit |-> None]>>,
        !.reviewers = <<[kind |-> "human", id |-> "alice", scrutiny |-> "high",
                         notes |-> None, timestamp |-> "t0"]>>]

\* A hand-written pending annotation with the sentinel in upper case.
HandPending ==
    [NoKwargs EXCEPT !.ai_composed = "gpt", !.human_certified = "PENDING",
                     !.scrutiny = "auto"]

\* a.py holds class A with method m, which starts without an annotation or
\* hand-certified; b.py holds function f, hand-certified or pending.
StartFiles ==
    {[p \in Files |->
        IF p = F1
        THEN <<Line(0, "def", "A", 0)>> \o bm \o <<Line(1, "def", "m", 0)>>
        ELSE bf \o <<Line(0, "def", "f", 0)>>]
     : bm \in {<<>>, decorator_lines(HandCertified, 1)},
       bf \in {decorator_lines(HandCertified, 0), decorator_lines(HandPending, 0)}}

NoOp == [op |-> "init", paths |-> <<>>, ret |-> <<>>, written |-> {},
         err |-> FALSE, arg |-> <<>>]

\* policy.DEFAULT_POLICY, the agent settings: disabled, nobody listed.
DEFAULT_POLICY == [enabled |-> FALSE, reviewers |-> <<>>]

\* No finalize invocation is under way.
NoProcs == <<>>

\* No source text is under study.
NoSource == <<>>

\* The audit log before anything was written to it.
NoAudit == <<>>

\* The encode/decode run when no record is under way.
IdleCodec == [pc |-> "idle", m |-> EmptyMeta, indent |-> 0, lines |-> <<>>, d |-> EmptyMeta]

Init ==
    /\ files \in StartFiles
    /\ regfile = EmptyRegistryFile
    /\ now = 0
    /\ ops = 0
    /\ last = NoOp
    /\ codec = IdleCodec
    /\ policy = DEFAULT_POLICY
    /\ procs = NoProcs
    /\ source = NoSource
    /\ audit = NoAudit

\* One more step within the budget of a behaviour; the clock has advanced
\* when the next step reads it.
Step ==
    /\ ops < MaxOps
    /\ ops' = ops + 1
    /\ now' = now + 1

Done(op, paths, res, arg) ==
    [op |-> op, paths |-> paths, ret |-> res.ret,
     written |-> res.written, err |-> res.err, arg |-> arg]

\* The developer changes a token in the body of the definition at line i.
EditBody(p, i) ==
    /\ Step
    /\ files' = [files EXCEPT ![p][i].val = (@ + 1) % (MaxBody + 1)]
    /\ last' = [op |-> "edit_body", paths |-> <<p>>, ret |-> <<>>,
                written |-> {p}, err |-> FALSE, arg |-> <<p, i>>]
    /\ UNCHANGED <<regfile, codec, policy, procs, source, audit>>

Annotate(paths, ai_agent, default_notes) ==
    \E res \in {annotate_paths(files, paths, ai_agent, default_notes, now)} :
       /\ Step
       /\ files' = res.files
       /\ last' = Done("annotate", paths, res, <<ai_agent, default_notes>>)
       /\ UNCHANGED <<regfile, codec, policy, procs, source, audit>>

Certify(paths, reviewer, scrutiny, notes, include_existing, reviewer_kind) ==
    \E res \in {certify(files, paths, reviewer, scrutiny, notes, include_existing,
                       reviewer_kind, now)} :
       /\ Step
       /\ files' = res.files
       /\ last' = Done("certify", paths, res, <<reviewer, scrutiny, reviewer_kind>>)
       /\ UNCHANGED <<regfile, codec, policy, procs, source, audit>>

Finalize(paths) ==
    \E res \in {finalize(files, regfile, paths, now)} :
       /\ Step
       /\ files' = res.files
       /\ regfile' = res.regfile
       /\ last' = Done("finalize", paths, res, <<>>)
       /\ UNCHANGED <<codec, policy, procs, source, audit>>

Reconcile ==
    \E res \in {reconcile_registry(files, regfile, now)} :
       /\ Step
       /\ files' = res.files
       /\ regfile' = res.regfile
       /\ last' = Done("reconcile", <<>>, res, <<>>)
       /\ UNCHANGED <<codec, policy, procs, source, audit>>

Next ==
    \/ \E p \in Files : \E i \in DefLines(files[p]) : EditBody(p, i)
    \/ \E paths \in PathChoices : Annotate(paths, "gpt", "auto")
    \/ \E paths \in PathChoices : Certify(paths, "alice", "high", None, FALSE, "human")
    \/ \E paths \in PathChoices : Finalize(paths)
    \/ Reconcile

Spec == Init /\ [][Next]_vars

\* ------------------------------------------------------------ observations
Range(s) == {s[n] : n \in DOMAIN s}

\* The keys of the active entries of the persisted registry.
ActiveKeys(rf) ==
    {<<rf.artifacts[n].filepath, rf.artifacts[n].qualified_name>> : n \in DOMAIN rf.artifacts}

\* The active entry of the persisted registry under a key.
EntryOf(rf, key) ==
    rf.artifacts[CHOOSE n \in DOMAIN rf.artifacts :
                    <<rf.artifacts[n].filepath, rf.artifacts[n].qualified_name>> = key]

\* The archive records of the persisted registry for a key, oldest first.
ArchiveOf(rf, key) ==
    SelectSeq(rf.history, LAMBDA r : <<r.filepath, r.qualified_name>> = key)

\* The artifact with the given key as the scanner reads it from the files.
ArtifactOf(fs, key) ==
    LET artifacts == parse_file(key[1], fs[key[1]])
    IN artifacts[CHOOSE n \in DOMAIN artifacts : artifacts[n].name = key[2]]

\* The keys of the artifacts of the given files.
KeysIn(fs, paths) ==
    UNION {{<<p, a.name>> : a \in Range(parse_file(p, fs[p]))} : p \in paths}

\* The keywords written in an artifact's annotation block.
WrittenKwargs(artifact) == decorator_kwargs(artifact.decorator.lines)

\* The body tokens of a span of lines: those of its definition lines.
BodyTokens(snippet) ==
    LET defs == SelectSeq(snippet, LAMBDA l : l.k = "def")
    IN [n \in DOMAIN defs |-> <<defs[n].key, defs[n].val>>]

\* The body tokens of an artifact in the files.
BodyOf(fs, key) ==
    LET artifact == ArtifactOf(fs, key)
    IN BodyTokens(SubSeq(fs[key[1]], artifact.lineno, artifact.end_lineno))

\* ------------------------------------------------------------------ claims
\* C1: after finalize(paths) returns, every artifact it reports as finalized
\* has no annotation block left in its source file, and the persisted
\* registry holds an active entry under the artifact's key.
C1_FinalizeLeavesNoBlock ==
    (last.op = "finalize" /\ ~last.err) =>
        \A key \in Range(last.ret) :
            /\ ~ArtifactOf(files, key).decorator.present
            /\ key \in ActiveKeys(regfile)

\* C2: finalize followed immediately by reconcile_registry, with no edit in
\* between, writes no source file, returns an empty list, archives nothing
\* and leaves the active registry entries as they were.  (Stated for the
\* runs in which every active entry was written by that finalize.)
C2_ReconcileAfterFinalizeIsQuiet ==
    [][(/\ last.op = "finalize"
        /\ last.ret # <<>>
        /\ ActiveKeys(regfile) \subseteq Range(last.ret)
        /\ last'.op = "reconcile"
        /\ ops' = ops + 1)
       => (/\ files' = files
           /\ last'.written = {}
           /\ last'.ret = <<>>
           /\ regfile' = regfile)]_vars

C4_FinalizeOnlyEligible ==
    [][(last'.op = "finalize" /\ ops' = ops + 1) =>
        \A key \in KeysIn(files, Range(last'.paths)) :
            LET artifact == ArtifactOf(files, key)
                written == WrittenKwargs(artifact)
                eligible == /\ artifact.decorator.present
                            /\ ~written.done
                            /\ Truthy(written.human_certified)
                            /\ Lower(written.human_certified) # "pending"
            IN ~eligible =>
                  /\ ArtifactOf(files', key).decorator = artifact.decorator
                  /\ (key \in ActiveKeys(regfile')) = (key \in ActiveKeys(regfile))
                  /\ key \in ActiveKeys(regfile) =>
                        EntryOf(regfile', key) = EntryOf(regfile, key)]_vars


\* ------------------------------------------------- encode/decode round trip
\* A reviewer record as certify writes it.
AliceReview ==
    [kind |-> "human", id |-> "alice", scrutiny |-> "high", notes |-> None,
     timestamp |-> "t0"]

\* The metadata records handed to the encoder.
CodecRecords ==
    [ai_composed : {None, "gpt"},
     human_certified : {None, "alice", "pending"},
     agent_certified : {None, "bot"},
     scrutiny : {None, "high"},
     date : {None, "t0"},
     notes : {None, "checked"},
     history : {<<>>, <<[ts |-> "t0", digest |-> "gpt|alice||||", action |-> <<"annotated">>,
                         commit |-> "unknown"]>>},
     extras : {<<>>, <<"ticket=7">>},
     done : BOOLEAN,
     reviewers : {<<>>, <<AliceReview>>}]

InitCodec ==
    /\ files = [p \in Files |-> <<>>]
    /\ regfile = EmptyRegistryFile
    /\ now = 0
    /\ ops = 0
    /\ last = NoOp
    /\ policy = DEFAULT_POLICY
    /\ procs = NoProcs
    /\ source = NoSource
    /\ audit = NoAudit
    /\ \E m \in CodecRecords :
          codec = [pc |-> "input", m |-> m, indent |-> 0, lines |-> <<>>, d |-> EmptyMeta]

\* format_metadata_decorator(m, indent): the block as it is written.
Encode(indent) ==
    /\ codec.pc = "input"
    /\ codec' = [codec EXCEPT !.pc = "encoded", !.indent = indent,
                              !.lines = format_metadata_decorator(codec.m, indent)]
    /\ UNCHANGED <<files, regfile, now, ops, last, policy, procs, source, audit>>

\* metadata_from_decorator on the written block.
Decode ==
    /\ codec.pc = "encoded"
    /\ codec' = [codec EXCEPT !.pc = "decoded",
                              !.d = metadata_from_decorator(codec.lines)]
    /\ UNCHANGED <<files, regfile, now, ops, last, policy, procs, source, audit>>

NextCodec ==
    \/ \E indent \in {0, 1} : Encode(indent)
    \/ Decode

SpecCodec == InitCodec /\ [][NextCodec]_vars

\* C5: decoding the block produced by encoding m gives a record equal to m
\* on every populated recognised field: ai_composed, human_certified,
\* agent_certified, scrutiny, date, notes, done, history, extras, reviewers.
C5_RoundTrip ==
    codec.pc = "decoded" =>
        /\ Truthy(codec.m.ai_composed) => codec.d.ai_composed = codec.m.ai_composed
        /\ Truthy(codec.m.human_certified) => codec.d.human_certified = codec.m.human_certified
        /\ Truthy(codec.m.agent_certified) => codec.d.agent_certified = codec.m.agent_certified
        /\ codec.m.scrutiny # None => codec.d.scrutiny = codec.m.scrutiny
        /\ Truthy(codec.m.date) => codec.d.date = codec.m.date
        /\ Truthy(codec.m.notes) => codec.d.notes = codec.m.notes
        /\ codec.m.done => codec.d.done
        /\ codec.m.history # <<>> => codec.d.history = codec.m.history
        /\ codec.m.extras # <<>> => codec.d.extras = codec.m.extras
        /\ codec.m.reviewers # <<>> => codec.d.reviewers = codec.m.reviewers


\* ------------------------------------------------ annotate and hand edits
\* a.py holds class A with method m, both without an annotation, m possibly
\* under a bare @certifai(); b.py holds function f, not annotated or
\* hand-certified.
StartFilesAnnotate ==
    {[p \in Files |->
        IF p = F1
        THEN <<Line(0, "def", "A", 0)>> \o bm \o <<Line(1, "def", "m", 0)>>
        ELSE bf \o <<Line(0, "def", "f", 0)>>]
     : bm \in {<<>>, <<Line(1, "call", "", 0)>>},
       bf \in {<<>>, decorator_lines(HandCertified, 0)}}

InitAnnotate ==
    /\ files \in StartFilesAnnotate
    /\ regfile = EmptyRegistryFile
    /\ now = 0
    /\ ops = 0
    /\ last = NoOp
    /\ codec = IdleCodec
    /\ policy = DEFAULT_POLICY
    /\ procs = NoProcs
    /\ source = NoSource
    /\ audit = NoAudit

\* The keywords a developer edits by hand, and the values typed in.
EditableFields ==
    {"ai_composed", "human_certified", "agent_certified", "scrutiny", "date", "notes",
     "done", "extras", "reviewers"}

FieldValues(field) ==
    CASE field = "ai_composed" -> {"claude", ""}
      [] field = "human_certified" -> {"bob"}
      [] field = "agent_certified" -> {"bot"}
      [] field = "scrutiny" -> {"low"}
      [] field = "date" -> {"d9"}
      [] field = "notes" -> {"reviewed", ""}
      [] field = "done" -> {TRUE}
      [] field = "extras" -> {<<"ticket=7">>}
      [] field = "reviewers" -> {<<AliceReview>>}

\* The text of a field that compute_digest hashes.
Projected(field, m) ==
    IF field = "extras" THEN join("\n", m.extras)
    ELSE IF field \in {"ai_composed", "human_certified", "scrutiny", "date", "notes"}
    THEN OrEmpty(m[field])
    ELSE ""

\* Whether history[0] carries the digest of the metadata it sits in.
InSync(m) == m.history # <<>> /\ extract_digest(m.history) = compute_digest(m)

\* The developer rewrites one keyword of the annotation block that an
\* annotate run left above the definition at line i, outside the program.
EditField(p, i, field, v) ==
    \E artifact \in {_visit_named_node(p, files[p], i)} :
    \E kwargs \in {decorator_kwargs(artifact.decorator.lines)} :
       /\ Step
       /\ last.op = "annotate"
       /\ artifact.decorator.present
       /\ kwargs[field] # v
       /\ files' = [files EXCEPT ![p] =
                       splice(@, artifact.decorator.start_line - 1,
                              artifact.decorator.end_line,
                              decorator_lines([kwargs EXCEPT ![field] = v],
                                              artifact.indent))]
       /\ last' = [op |-> "edit_field", paths |-> <<p>>, ret |-> <<>>,
                   written |-> {p}, err |-> FALSE,
                   arg |-> [name |-> artifact.name, field |-> field,
                            before |-> artifact.tags]]
       /\ UNCHANGED <<regfile, codec, policy, procs, source, audit>>

\* The runs of annotate: the paths and the agent label.
AnnotateRuns == {<<<<F2>>, "gpt">>, <<<<F1, F2>>, "gpt">>, <<<<F1, F2>>, "">>}

NextAnnotate ==
    \/ \E run \in AnnotateRuns : Annotate(run[1], run[2], "auto")
    \/ \E i \in DefLines(files[F2]) : \E field \in EditableFields :
          \E v \in FieldValues(field) : EditField(F2, i, field, v)

SpecAnnotate == InitAnnotate /\ [][NextAnnotate]_vars

\* The annotation annotate_paths gives an artifact that had none.
PendingAnnotation(fs, key, label) ==
    \E artifact \in {ArtifactOf(fs, key)} :
       /\ artifact.decorator.present
       /\ artifact.tags.ai_composed = label
       /\ artifact.tags.human_certified = "pending"
       /\ artifact.tags.scrutiny = "auto"
       /\ Len(artifact.tags.history) = 1
       /\ extract_digest(artifact.tags.history) = compute_digest(artifact.tags)

\* Every artifact of the annotated files that had no recognised metadata
\* carries the pending annotation afterwards, and the run does not fail.
AnnotatedAll(label) ==
    /\ ~last'.err
    /\ \A key \in KeysIn(files, Range(last'.paths)) :
          ~has_metadata(ArtifactOf(files, key).tags) => PendingAnnotation(files', key, label)

\* C6: a second annotate_paths on a file not edited since the first run
\* writes nothing (the file is not in updated_files), and every annotated
\* artifact still has a history of exactly one entry, the one it had after
\* the first run.
C6_AnnotateIdempotent ==
    [][(/\ last.op = "annotate"
        /\ ~last.err
        /\ last'.op = "annotate"
        /\ ops' = ops + 1
        /\ Range(last'.paths) \subseteq Range(last.paths))
       => (/\ files' = files
           /\ last'.written = {}
           /\ last'.ret = <<>>
           /\ ~last'.err
           /\ \A key \in KeysIn(files', Range(last'.paths)) :
                 /\ ArtifactOf(files', key).decorator.present
                 /\ Len(ArtifactOf(files', key).tags.history) = 1
                 /\ ArtifactOf(files', key).tags.history = ArtifactOf(files, key).tags.history)]_vars

\* A second run over a.py and b.py that wrote nothing, on blocks that an
\* earlier run inserted.
C6_Witness ==
    /\ last.op = "annotate"
    /\ last.paths = <<F1, F2>>
    /\ last.written = {}
    /\ \A key \in KeysIn(files, Files) :
          /\ ArtifactOf(files, key).decorator.present
          /\ Len(ArtifactOf(files, key).tags.history) = 1
    /\ ArtifactOf(files, <<F1, "A.m">>).tags.history[1].action = <<"annotated">>

\* The annotate run that follows a hand edit of one keyword of an artifact
\* whose history[0] carried the digest of its metadata.
AnnotateAfterEdit ==
    /\ last.op = "edit_field"
    /\ InSync(last.arg.before)
    /\ last'.op = "annotate"
    /\ ops' = ops + 1
    /\ last.paths[1] \in Range(last'.paths)

\* history[0] of the edited artifact carries a digest other than the one
\* before the edit, and it is the digest of the metadata as it now reads.
DigestRefreshed ==
    \E tags \in {ArtifactOf(files', <<last.paths[1], last.arg.name>>).tags} :
       /\ tags.history # <<>>
       /\ extract_digest(tags.history) # extract_digest(last.arg.before.history)
       /\ extract_digest(tags.history) = compute_digest(tags)

\* C7 as stated: for every recognised field (ai_composed, human_certified,
\* agent_certified, scrutiny, date, notes, done, extras, reviewers), after an
\* out-of-band change of that field and a new annotate_paths, history[0]'s
\* digest differs from the one before the edit and equals the metadata
\* digest of the current metadata.
C7_AnyFieldEditRefreshesDigest ==
    [][AnnotateAfterEdit => DigestRefreshed]_vars

\* C7 amended: the same for the six fields the metadata digest covers
\* (ai_composed, human_certified, scrutiny, date, notes, extras), when the
\* edit changes the text the digest hashes for that field and history[0] was
\* in sync before the edit.
C7_DigestFieldEditRefreshesDigest ==
    [][(/\ AnnotateAfterEdit
        /\ last.arg.field \in {"ai_composed", "human_certified", "scrutiny", "date",
                               "notes", "extras"}
        /\ Projected(last.arg.field, last.arg.before)
              # Projected(last.arg.field,
                          ArtifactOf(files, <<last.paths[1], last.arg.name>>).tags))
       => DigestRefreshed]_vars

\* An annotate run has just restamped the history of an artifact whose
\* notes were edited by hand.
C7_Witness ==
    /\ last.op = "annotate"
    /\ F2 \in last.written
    /\ LET tags == ArtifactOf(files, <<F2, "f">>).tags
       IN /\ tags.notes = "reviewed"
          /\ tags.history # <<>>
          /\ tags.history[1].ts = isoformat(now - 1)
          /\ tags.history[1].action = <<>>
          /\ extract_digest(tags.history) = compute_digest(tags)

AgentPermission(id, max_scrutiny) == [id |-> id, max_scrutiny |-> max_scrutiny]

\* The integrations.agents sections of the policy files: the default, a
\* disabled section that lists the agent, and enabled sections that list
\* nobody, another agent, the agent without a ceiling, with a ceiling, and
\* twice with two ceilings.
Policies ==
    {DEFAULT_POLICY,
     [enabled |-> FALSE, reviewers |-> <<AgentPermission("bot", "high")>>]}
    \cup {[enabled |-> TRUE, reviewers |-> r] :
            r \in {<<AgentPermission("ci", "high")>>,
                   <<AgentPermission("bot", None)>>,
                   <<AgentPermission("bot", "low")>>,
                   <<AgentPermission("bot", "Medium")>>,
                   <<AgentPermission("bot", "low"), AgentPermission("bot", "high")>>}}

\* The entries of the policy that name the agent.
Listed(settings, agent_id) ==
    {n \in DOMAIN settings.reviewers : settings.reviewers[n].id = agent_id}

\* A command that stops with an error before it touches a file.
Refuse(fs) == [files |-> fs, ret |-> <<>>, written |-> {}, err |-> TRUE]

\* cli.certify, the ceiling check on the policy entry of an agent: an entry
\* with a max_scrutiny needs a known one, not below the requested level.
_agent_allowed(permission, requested_level) ==
    With(from_string(permission.max_scrutiny), LAMBDA allowed_level :
       ~Truthy(permission.max_scrutiny)
       \/ (allowed_level # None
           /\ order_index(requested_level) <= order_index(allowed_level)))

\* cli.certify: the --agent flag makes the reviewer an agent, checked
\* against the first policy entry with its id.
certify_cmd(fs, paths, reviewer, scrutiny, notes, include_existing, policy_config, agent, t) ==
    With(IF agent THEN "agent" ELSE "human", LAMBDA reviewer_kind :
    With(from_string(scrutiny), LAMBDA requested_level :
    With(Listed(policy_config, reviewer), LAMBDA listed :
       IF requested_level = None THEN Refuse(fs)
       ELSE IF reviewer_kind = "agent" /\ ~policy_config.enabled THEN Refuse(fs)
       ELSE IF reviewer_kind = "agent" /\ listed = {} THEN Refuse(fs)
       ELSE IF reviewer_kind = "agent"
               /\ ~_agent_allowed(policy_config.reviewers[Min(listed)], requested_level)
       THEN Refuse(fs)
       ELSE certify(fs, paths, reviewer, scrutiny, notes, include_existing,
                    reviewer_kind, t))))

\* A certify-agent command that skips the policy.
certify_agent_cmd_unchecked(fs, paths, agent_id, scrutiny, notes, include_existing, policy_config, t) ==
    certify_agent(fs, paths, agent_id, scrutiny, notes, include_existing, t)

\* cli.certify_agent_cmd: the agent is checked against the last policy entry
\* with its id (the entries are collected in a dict keyed by id).
certify_agent_cmd(fs, paths, agent_id, scrutiny, notes, include_existing, policy_config, t) ==
    With(Listed(policy_config, agent_id), LAMBDA listed :
       IF ~policy_config.enabled THEN Refuse(fs)
       ELSE IF listed = {} THEN Refuse(fs)
       ELSE
    With(policy_config.reviewers[Max(listed)].max_scrutiny, LAMBDA max_scrutiny :
    With(from_string(scrutiny), LAMBDA level :
    With(from_string(max_scrutiny), LAMBDA max_level :
       IF Truthy(max_scrutiny) /\ (level = None \/ max_level = None) THEN Refuse(fs)
       ELSE IF Truthy(max_scrutiny) /\ order_index(level) > order_index(max_level)
       THEN Refuse(fs)
       ELSE certify_agent(fs, paths, agent_id, scrutiny, notes, include_existing, t)))))

InitCli ==
    /\ files \in StartFiles
    /\ regfile = EmptyRegistryFile
    /\ now = 0
    /\ ops = 0
    /\ last = NoOp
    /\ codec = IdleCodec
    /\ policy \in Policies
    /\ procs = NoProcs
    /\ source = NoSource
    /\ audit = NoAudit

\* The scrutiny strings typed on the command line.
Scrutinies == {" High ", "bogus"}

CertifyAgent(paths, agent_id, scrutiny, notes, include_existing) ==
    \E res \in {certify_agent(files, paths, agent_id, scrutiny, notes, include_existing, now)} :
       /\ Step
       /\ files' = res.files
       /\ last' = Done("certify_agent", paths, res, <<agent_id, scrutiny, "agent">>)
       /\ UNCHANGED <<regfile, codec, policy, procs, source, audit>>

CertifyCmd(paths, reviewer, scrutiny, notes, include_existing, agent) ==
    \E res \in {certify_cmd(files, paths, reviewer, scrutiny, notes, include_existing,
                           policy, agent, now)} :
       /\ Step
       /\ files' = res.files
       /\ last' = Done("certify_cmd", paths, res,
                       <<reviewer, scrutiny, IF agent THEN "agent" ELSE "human">>)
       /\ UNCHANGED <<regfile, codec, policy, procs, source, audit>>

CertifyAgentCmd(paths, agent_id, scrutiny, notes, include_existing) ==
    \E res \in {certify_agent_cmd(files, paths, agent_id, scrutiny, notes,
                                 include_existing, policy, now)} :
       /\ Step
       /\ files' = res.files
       /\ last' = Done("certify_agent_cmd", paths, res, <<agent_id, scrutiny, "agent">>)
       /\ UNCHANGED <<regfile, codec, policy, procs, source, audit>>

NextCli ==
    \/ \E scrutiny \in Scrutinies :
          Certify(<<F1, F2>>, "alice", scrutiny, None, FALSE, "human")
    \/ \E scrutiny \in Scrutinies : CertifyAgent(<<F1, F2>>, "bot", scrutiny, None, FALSE)
    \/ \E scrutiny \in Scrutinies : \E agent \in BOOLEAN :
          CertifyCmd(<<F1, F2>>, "bot", scrutiny, None, FALSE, agent)
    \/ \E scrutiny \in Scrutinies : CertifyAgentCmd(<<F1, F2>>, "bot", scrutiny, None, FALSE)

SpecCli == InitCli /\ [][NextCli]_vars

\* The ceilings the policy configures for the agent.
Ceilings(settings, agent_id) ==
    {settings.reviewers[n].max_scrutiny : n \in Listed(settings, agent_id)}

\* The cases of C9: agent certification is disabled, the agent is not listed,
\* or the requested level lies above the agent's ceiling.
AboveCeiling(settings, agent_id, scrutiny) ==
    \E c \in Ceilings(settings, agent_id) :
        /\ Ceilings(settings, agent_id) = {c}
        /\ from_string(c) # None
        /\ from_string(scrutiny) # None
        /\ order_index(from_string(scrutiny)) > order_index(from_string(c))

NotPermitted(settings, agent_id, scrutiny) ==
    \/ ~settings.enabled
    \/ Listed(settings, agent_id) = {}
    \/ AboveCeiling(settings, agent_id, scrutiny)

\* Some artifact of the files is pending under an annotation block, so
\* that a certification run would write.
SomePending(fs) ==
    \E key \in KeysIn(fs, Files) :
        /\ ArtifactOf(fs, key).decorator.present
        /\ is_pending_certification(ArtifactOf(fs, key).tags)

C10_UnknownScrutinyRejected ==
    [][(/\ last'.op \in {"certify", "certify_agent"}
        /\ ops' = ops + 1
        /\ from_string(last'.arg[2]) = None)
       => (/\ last'.err
           /\ last'.ret = <<>>
           /\ last'.written = {}
           /\ files' = files)]_vars

\* certify has rejected an unrecognised scrutiny for two files while an
\* artifact was waiting for certification.
C10_Witness ==
    /\ last.op = "certify"
    /\ last.paths = <<F1, F2>>
    /\ from_string(last.arg[2]) = None
    /\ last.err
    /\ SomePending(files)

\* ------------------------------------------------------------------ batches
\* A decorator call that is never closed: ast.parse raises SyntaxError on
\* the file that holds it.
Unclosed == <<Line(0, "open", "", 0)>>

\* The batch is a.py then b.py.  a.py holds class A with method m, where one
\* of the two carries a pending annotation and the other none, or m is
\* certified; b.py holds the pending function f.  One of the two files may
\* fail to parse.
StartFilesBatch ==
    {[p \in Files |-> IF p = F1 THEN a ELSE b] :
        a \in {<<Line(0, "def", "A", 0)>> \o decorator_lines(HandPending, 1)
                  \o <<Line(1, "def", "m", 0)>>,
               decorator_lines(HandPending, 0) \o <<Line(0, "def", "A", 0),
                                                    Line(1, "def", "m", 0)>>,
               <<Line(0, "def", "A", 0)>> \o decorator_lines(HandCertified, 1)
                  \o <<Line(1, "def", "m", 0)>>,
               Unclosed \o <<Line(0, "def", "A", 0)>>},
        b \in {decorator_lines(HandPending, 0) \o <<Line(0, "def", "f", 0)>>,
               Unclosed \o <<Line(0, "def", "f", 0)>>}}

InitBatch ==
    /\ files \in StartFilesBatch
    /\ regfile = EmptyRegistryFile
    /\ now = 0
    /\ ops = 0
    /\ last = NoOp
    /\ codec = IdleCodec
    /\ policy = DEFAULT_POLICY
    /\ procs = NoProcs
    /\ source = NoSource
    /\ audit = NoAudit

NextBatch ==
    \/ Annotate(<<F1, F2>>, "gpt", "auto")
    \/ Certify(<<F1, F2>>, "alice", "high", None, FALSE, "human")
    \/ Finalize(<<F1, F2>>)

SpecBatch == InitBatch /\ [][NextBatch]_vars

\* The lines of an artifact's own header: its decorators and the line of
\* its definition.
HeaderOf(fs, key) ==
    SubSeq(fs[key[1]], ArtifactOf(fs, key).start_line, ArtifactOf(fs, key).lineno)

\* C11: when certify processes a batch whose files parse, every artifact
\* that had a pending annotation block is certified by the reviewer, every
\* artifact without an annotation block still has none and its header
\* lines are as they were, no error is raised, and this holds for every
\* file of the batch, those after a file with unannotated artifacts too.
C11_CertifySkipsUnannotated ==
    [][(/\ last'.op = "certify"
        /\ ops' = ops + 1
        /\ \A p \in Range(last'.paths) : Parses(files[p]))
       => /\ ~last'.err
          /\ \A key \in KeysIn(files, Range(last'.paths)) :
                /\ (/\ ArtifactOf(files, key).decorator.present
                    /\ is_pending_certification(ArtifactOf(files, key).tags))
                   => /\ WrittenKwargs(ArtifactOf(files', key)).human_certified
                            = last'.arg[1]
                      /\ ~is_pending_certification(ArtifactOf(files', key).tags)
                      /\ key \in Range(last'.ret)
                /\ ~ArtifactOf(files, key).decorator.present
                   => /\ ~ArtifactOf(files', key).decorator.present
                      /\ HeaderOf(files', key) = HeaderOf(files, key)]_vars

\* A certify run has just certified m of a.py, whose class A has no
\* annotation block, and then f of b.py.
C11_Witness ==
    /\ last.op = "certify"
    /\ ~last.err
    /\ <<F1, "A.m">> \in Range(last.ret)
    /\ <<F2, "f">> \in Range(last.ret)
    /\ ~ArtifactOf(files, <<F1, "A">>).decorator.present
    /\ WrittenKwargs(ArtifactOf(files, <<F1, "A.m">>)).date = isoformat(now - 1)
    /\ WrittenKwargs(ArtifactOf(files, <<F2, "f">>)).date = isoformat(now - 1)

\* The files of a batch that parse, in the order of the batch.
Parsing(fs, paths) == SelectSeq(paths, LAMBDA p : Parses(fs[p]))

\* C17: when a file of the batch fails structural parsing, annotate,
\* certify and finalize leave that file as it is, do to the other files
\* what they do when called on those alone, and the call does not fail.
C17_ParseFailureSkipsFile ==
    [][(/\ last'.op \in {"annotate", "certify", "finalize"}
        /\ ops' = ops + 1
        /\ \E p \in Range(last'.paths) : ~Parses(files[p]))
       => /\ ~last'.err
          /\ \A p \in Range(last'.paths) : ~Parses(files[p]) => files'[p] = files[p]
          /\ last'.op = "annotate" =>
                files' = annotate_paths(files, Parsing(files, last'.paths),
                                        "gpt", "auto", now).files
          /\ last'.op = "certify" =>
                files' = certify(files, Parsing(files, last'.paths), "alice", "high",
                                 None, FALSE, "human", now).files
          /\ last'.op = "finalize" =>
                /\ files' = finalize(files, regfile, Parsing(files, last'.paths),
                                     now).files
                /\ regfile' = finalize(files, regfile, Parsing(files, last'.paths),
                                       now).regfile]_vars

\* ------------------------------------------------- is_pending_certification
\* The metadata records is_pending_certification is asked about: done or
\* not, with or without a certifier in human_certified, and with reviewer
\* lists that hold a human, the sentinel, an agent, or nobody.
PendingRecords ==
    {[EmptyMeta EXCEPT !.done = done, !.human_certified = human, !.reviewers = reviewers] :
        done \in BOOLEAN,
        human \in {None, "", "pending", "PENDING", "alice"},
        reviewers \in
            {<<>>,
             <<AliceReview>>,
             <<[AliceReview EXCEPT !.id = "pending"]>>,
             <<[AliceReview EXCEPT !.id = "PENDING"]>>,
             <<[AliceReview EXCEPT !.id = ""]>>,
             <<[AliceReview EXCEPT !.kind = "agent", !.id = "bot"]>>,
             <<[AliceReview EXCEPT !.kind = "agent", !.id = "bot"], AliceReview>>}}

InitPending ==
    /\ files \in {[p \in Files |-> <<>>]}
    /\ regfile = EmptyRegistryFile
    /\ now = 0
    /\ ops = 0
    /\ last = NoOp
    /\ codec \in {[IdleCodec EXCEPT !.m = m] : m \in PendingRecords}
    /\ policy = DEFAULT_POLICY
    /\ procs = NoProcs
    /\ source = NoSource
    /\ audit = NoAudit

\* The property is read on the record.
IsPending ==
    /\ last.op = "init"
    /\ Step
    /\ last' = [op |-> "is_pending_certification", paths |-> <<>>,
                ret |-> <<is_pending_certification(codec.m)>>, written |-> {},
                err |-> FALSE, arg |-> codec.m]
    /\ UNCHANGED <<files, regfile, codec, policy, procs, source, audit>>

NextPending == IsPending

SpecPending == InitPending /\ [][NextPending]_vars

\* C12: for every metadata record, is_pending_certification is true exactly
\* when done is false and no reviewer record has kind "human" with an id
\* other than "pending" (an empty id and the sentinel in another letter case
\* are taken as pending, as the code takes them).
C12_PendingIffOpenAndNoHumanReviewer ==
    last.op = "is_pending_certification" =>
        (last.ret[1] <=>
            /\ ~last.arg.done
            /\ ~\E n \in DOMAIN last.arg.reviewers :
                   /\ last.arg.reviewers[n].kind = "human"
                   /\ Truthy(last.arg.reviewers[n].id)
                   /\ Lower(last.arg.reviewers[n].id) # "pending")

\* ----------------------------------------------------------------- registry
\* The developer deletes the definition at line i with its decorators and
\* everything nested in it.
RemoveDef(p, i) ==
    /\ Step
    /\ files' = [files EXCEPT ![p] =
                    splice(@, _artifact_start_line(@, i) - 1, end_lineno(@, i), <<>>)]
    /\ last' = [op |-> "remove_def", paths |-> <<p>>, ret |-> <<>>,
                written |-> {p}, err |-> FALSE, arg |-> <<p, i>>]
    /\ UNCHANGED <<regfile, codec, policy, procs, source, audit>>

\* The developer deletes a source file.
DeleteFile(p) ==
    /\ Step
    /\ exists(files, p)
    /\ files' = [files EXCEPT ![p] = NoFile]
    /\ last' = [op |-> "delete_file", paths |-> <<p>>, ret |-> <<>>,
                written |-> {p}, err |-> FALSE, arg |-> <<p>>]
    /\ UNCHANGED <<regfile, codec, policy, procs, source, audit>>

NextRegistry ==
    \/ \E p \in Files : \E i \in DefLines(files[p]) : EditBody(p, i)
    \/ \E p \in Files : \E i \in DefLines(files[p]) : RemoveDef(p, i)
    \/ \E p \in Files : DeleteFile(p)
    \/ Certify(<<F1, F2>>, "alice", "high", None, FALSE, "human")
    \/ \E paths \in PathChoices : Finalize(paths)
    \/ Reconcile

SpecRegistry == Init /\ [][NextRegistry]_vars

\* Whether a sequence starts with another.
IsPrefix(s, t) == Len(s) <= Len(t) /\ SubSeq(t, 1, Len(s)) = s

\* C13: the registry entry finalize creates for an artifact holds the
\* reviewers written in the artifact's annotation before the run, record by
\* record in the same order, and the history and notes of that annotation.
C13_EntrySnapshotsAnnotation ==
    [][(last'.op = "finalize" /\ ops' = ops + 1) =>
        \A key \in Range(last'.ret) :
            /\ EntryOf(regfile', key).reviewers
                  = WrittenKwargs(ArtifactOf(files, key)).reviewers
            /\ EntryOf(regfile', key).history
                  = WrittenKwargs(ArtifactOf(files, key)).history
            /\ EntryOf(regfile', key).notes
                  = WrittenKwargs(ArtifactOf(files, key)).notes]_vars

\* C14: in every reachable state, every entry of the persisted registry,
\* active or copied into an archive record, has a lifecycle_history that is
\* not empty and starts with the event "finalized".
C14_LifecycleStartsFinalized ==
    /\ \A n \in DOMAIN regfile.artifacts :
          /\ regfile.artifacts[n].lifecycle_history # <<>>
          /\ regfile.artifacts[n].lifecycle_history[1].event = "finalized"
    /\ \A n \in DOMAIN regfile.history :
          /\ regfile.history[n].entry.lifecycle_history # <<>>
          /\ regfile.history[n].entry.lifecycle_history[1].event = "finalized"

\* The persisted registry holds an active entry and an archived one that
\* was reopened after it was finalized.
C14_Witness ==
    /\ regfile.artifacts # <<>>
    /\ \E n \in DOMAIN regfile.history :
          /\ Len(regfile.history[n].entry.lifecycle_history) = 2
          /\ regfile.history[n].entry.lifecycle_history[2].event = "reopened"

\* C15: over every step of finalize and reconcile_registry, the archive
\* list of the persisted registry before the step is a prefix of the
\* archive list after it.
C15_ArchiveAppendOnly ==
    [][IsPrefix(regfile.history, regfile'.history)]_vars

\* A finalize run has just saved the registry with a new entry, below an
\* archive that already held a record, and a reconcile run before it had
\* added to an archive.
C15_Witness ==
    /\ last.op = "finalize"
    /\ last.ret # <<>>
    /\ regfile.history # <<>>
    /\ \E n \in DOMAIN regfile.artifacts :
          regfile.artifacts[n].finalized_at = isoformat(now - 1)

\* C16: after reconcile_registry returns, no active entry of the persisted
\* registry names a file that does not exist or a qualified name that its
\* file does not define.
C16_ReconcilePrunesPersisted ==
    [][(last'.op = "reconcile" /\ ops' = ops + 1 /\ ~last'.err) =>
        \A key \in ActiveKeys(regfile') :
            /\ exists(files', key[1])
            /\ key \in KeysIn(files', {key[1]})]_vars

\* C18: a second finalize on the same paths, directly after the first,
\* finalizes nothing, writes no source file and leaves the active entries
\* of the persisted registry as they were.
C18_FinalizeIdempotent ==
    [][(/\ last.op = "finalize"
        /\ ~last.err
        /\ last'.op = "finalize"
        /\ last'.paths = last.paths
        /\ ops' = ops + 1)
       => (/\ last'.ret = <<>>
           /\ last'.written = {}
           /\ files' = files
           /\ regfile'.artifacts = regfile.artifacts)]_vars

\* ------------------------------------------------- concurrent finalize runs
\* Two finalize invocations, as two operating-system processes: the first
\* is called on a.py and the second on b.py, with the same registry file.
\* An invocation reads the registry file once (load_registry), then reads
\* and rewrites its source files one by one, then writes the registry file
\* (save_registry); reads and writes of the two interleave freely.
Procs == {1, 2}

\* The local variables of an invocation before its first statement.
NotStarted(paths) ==
    [pc |-> "load", paths |-> paths, store |-> EmptyStore, ret |-> <<>>,
     written |-> {}, t |-> 0, loaded_at |-> 0, saved_at |-> 0]

InitRace ==
    /\ files \in StartFiles
    /\ regfile = EmptyRegistryFile
    /\ now = 1
    /\ ops = 0
    /\ last = NoOp
    /\ codec = IdleCodec
    /\ policy = DEFAULT_POLICY
    /\ procs = [p \in Procs |-> NotStarted(IF p = 1 THEN <<F1>> ELSE <<F2>>)]
    /\ source = NoSource
    /\ audit = NoAudit

\* finalize.py:40-43: the registry is loaded and the clock is read.
LoadRegistry(p) ==
    /\ procs[p].pc = "load"
    /\ procs' = [procs EXCEPT ![p] = [@ EXCEPT !.pc = "loop",
                                               !.store = load_registry(regfile),
                                               !.t = now,
                                               !.loaded_at = now]]
    /\ now' = now + 1
    /\ UNCHANGED <<files, regfile, ops, last, codec, policy, source, audit>>

\* finalize.py:45-66: one pass of the loop over the paths.
FinalizeFile(p) ==
    /\ procs[p].pc = "loop"
    /\ procs[p].paths # <<>>
    /\ \E acc \in {finalize_file([files |-> files, store |-> procs[p].store,
                                  ret |-> procs[p].ret, written |-> procs[p].written,
                                  err |-> FALSE],
                                 Head(procs[p].paths), procs[p].t)} :
          /\ files' = acc.files
          /\ procs' = [procs EXCEPT ![p] = [@ EXCEPT
                          !.pc = IF acc.err THEN "raised" ELSE "loop",
                          !.paths = Tail(@),
                          !.store = acc.store,
                          !.ret = acc.ret,
                          !.written = acc.written]]
    /\ now' = now + 1
    /\ UNCHANGED <<regfile, ops, last, codec, policy, source, audit>>

\* A save that first reads the registry file again and adds the entries
\* of this invocation to what it finds there.
save_merged_if_finalized(current, store, finalized) ==
    IF finalized # <<>>
    THEN save_registry(
            update_registry(load_registry(current),
                            [n \in DOMAIN finalized |->
                                [artifact |-> [filepath |-> finalized[n][1],
                                               name |-> finalized[n][2]],
                                 entry |-> store.active[finalized[n]]]]))
    ELSE current

\* finalize.py:68-69: the registry file after "if finalized: save_registry".
save_if_finalized(current, store, finalized) ==
    IF finalized # <<>> THEN save_registry(store) ELSE current

\* finalize.py:68-70: the registry is saved and the invocation returns.
SaveRegistry(p) ==
    /\ procs[p].pc = "loop"
    /\ procs[p].paths = <<>>
    /\ regfile' = save_if_finalized(regfile, procs[p].store, procs[p].ret)
    /\ procs' = [procs EXCEPT ![p] = [@ EXCEPT !.pc = "returned", !.saved_at = now]]
    /\ now' = now + 1
    /\ UNCHANGED <<files, ops, last, codec, policy, source, audit>>

NextRace ==
    \/ \E p \in Procs : LoadRegistry(p)
    \/ \E p \in Procs : FinalizeFile(p)
    \/ \E p \in Procs : SaveRegistry(p)

SpecRace == InitRace /\ [][NextRace]_vars

\* Invocation p saved the registry before q did, both having finalized
\* something and returned.
SavedBefore(p, q) ==
    /\ procs[p].pc = "returned"
    /\ procs[q].pc = "returned"
    /\ procs[p].ret # <<>>
    /\ procs[q].ret # <<>>
    /\ procs[p].saved_at < procs[q].saved_at

\* C19: when two finalize invocations on different files have both
\* returned, the entries of the one that saved first are missing from the
\* persisted registry exactly when the other had loaded the registry
\* before that save; the source file of the first is rewritten all the
\* same, the entries of the last writer are there, and neither invocation
\* raised an error.
C19_LastWriterWins ==
    \A p \in DOMAIN procs : \A q \in DOMAIN procs :
        SavedBefore(p, q) =>
            /\ Range(procs[q].ret) \subseteq ActiveKeys(regfile)
            /\ \A key \in Range(procs[p].ret) :
                  /\ key \notin ActiveKeys(regfile)
                        <=> procs[q].loaded_at < procs[p].saved_at
                  /\ WrittenKwargs(ArtifactOf(files, key)).done

\* Both invocations loaded the registry, then each saved: the entry of the
\* first to save is gone although its source file says done.
C19_Witness ==
    \E p \in DOMAIN procs : \E q \in DOMAIN procs :
        /\ SavedBefore(p, q)
        /\ procs[q].loaded_at < procs[p].saved_at
        /\ procs[p].loaded_at < procs[q].saved_at
        /\ \E key \in Range(procs[p].ret) :
              /\ key \notin ActiveKeys(regfile)
              /\ WrittenKwargs(ArtifactOf(files, key)).done

\* ------------------------------------------------ content digest of a text
\* The text of an artifact as compute_artifact_digest reads it, from its
\* first decorator line to its last line.  A text line is a record
\*     [indent, k, tok, paren, trail]
\* with k "decorator", "def", "stmt" (the statement x = <literal>),
\* "comment" or "blank"; indent the leading whitespace in indentation
\* units; tok the literal of a statement or the words of a comment; paren
\* whether the literal is written in parentheses; trail whether whitespace
\* follows the last character of the line.
TextLine(indent, k, tok) ==
    [indent |-> indent, k |-> k, tok |-> tok, paren |-> FALSE, trail |-> FALSE]

\* textwrap.dedent: the common leading whitespace of the lines that are not
\* blank is removed from them; blank lines become empty.
textwrap_dedent(text) ==
    With({text[n].indent : n \in {x \in DOMAIN text : text[x].k # "blank"}},
         LAMBDA indents :
       [n \in DOMAIN text |->
           IF text[n].k = "blank" THEN [text[n] EXCEPT !.indent = 0, !.trail = FALSE]
           ELSE [text[n] EXCEPT !.indent = @ - Min(indents)]])

\* str.strip: no blank lines and no whitespace before the first character
\* or after the last one.
RECURSIVE str_strip(_)
str_strip(text) ==
    IF text = <<>> THEN <<>>
    ELSE IF text[1].k = "blank" THEN str_strip(Tail(text))
    ELSE IF text[Len(text)].k = "blank" THEN str_strip(SubSeq(text, 1, Len(text) - 1))
    ELSE [n \in DOMAIN text |->
            [text[n] EXCEPT !.indent = IF n = 1 THEN 0 ELSE @,
                            !.trail = IF n = Len(text) THEN FALSE ELSE @]]

\* digest._artifact_source on the lines of the artifact.
snippet_of(text) == str_strip(textwrap_dedent(text))

\* The lines of a text that hold code.
code_lines(text) == SelectSeq(text, LAMBDA l : l.k \in {"decorator", "def", "stmt"})

\* Whether ast.parse accepts the snippet: decorators and the def line start
\* in the first column and the statements of the body share one deeper
\* indentation; comments and blank lines do not count.
ast_parses(snippet) ==
    With(code_lines(snippet), LAMBDA code :
       /\ \E d \in DOMAIN code :
             /\ code[d].k = "def"
             /\ d < Len(code)
             /\ \A n \in DOMAIN code :
                   /\ n < d => code[n].k = "decorator"
                   /\ n > d => code[n].k = "stmt"
                   /\ n <= d => code[n].indent = 0
                   /\ n > d => code[n].indent > 0 /\ code[n].indent = code[d + 1].indent)

\* ast.dump(tree, include_attributes=False): the nodes of the code lines,
\* without positions, comments, parentheses or whitespace.
ast_dump(snippet) ==
    With(code_lines(snippet), LAMBDA code :
       [n \in DOMAIN code |-> <<code[n].k, code[n].tok>>])

\* digest.compute_artifact_digest on the text: the SHA-256 of the ast dump
\* of the snippet, or of the snippet itself when it does not parse; the
\* digest is modelled as what is hashed.
text_digest(text) ==
    With(snippet_of(text), LAMBDA snippet :
       IF snippet = <<>> THEN <<"sha256", <<>>>>
       ELSE IF ast_parses(snippet) THEN <<"sha256", ast_dump(snippet)>>
       ELSE <<"sha256", snippet>>)

\* The texts: a function in the first column or a method one level in,
\* decorated or not, with two statements in its body and possibly a
\* comment before them, in the first column or at the body's indentation.
StartSources ==
    {(IF decorated THEN <<TextLine(base, "decorator", 0)>> ELSE <<>>)
     \o <<TextLine(base, "def", 0)>>
     \o (IF comment = "none" THEN <<>>
         ELSE <<TextLine(IF comment = "body" THEN base + 1 ELSE 0, "comment", 0)>>)
     \o <<TextLine(base + 1, "stmt", 0), TextLine(base + 1, "stmt", 0)>> :
        base \in {0, 1},
        decorated \in BOOLEAN,
        comment \in {"none", "first_column", "body"}}

InitDigest ==
    /\ files \in {[p \in Files |-> <<>>]}
    /\ regfile = EmptyRegistryFile
    /\ now = 0
    /\ ops = 0
    /\ last = NoOp
    /\ codec = IdleCodec
    /\ policy = DEFAULT_POLICY
    /\ procs = NoProcs
    /\ source \in StartSources
    /\ audit = NoAudit

\* An edit of the text: the digest is taken before and after it.
Edited(op, i, text) ==
    /\ Step
    /\ source' = text
    /\ last' = [op |-> op, paths |-> <<>>, ret |-> <<text_digest(source), text_digest(text)>>,
                written |-> {}, err |-> FALSE, arg |-> i]
    /\ UNCHANGED <<files, regfile, codec, policy, procs, audit>>

\* The first line of the body.
BodyStart(text) == 1 + Max({n \in DOMAIN text : text[n].k = "def"})

\* The line of the first statement.
FirstStmt(text) == Min({n \in DOMAIN text : text[n].k = "stmt"})

\* Trailing whitespace is added to or removed from line i of the body.
ToggleTrailing(i) ==
    /\ i >= BodyStart(source)
    /\ source[i].k \in {"stmt", "comment"}
    /\ Edited("trailing_whitespace", i, [source EXCEPT ![i].trail = ~@])

\* A blank line is put in front of the last statement.
InsertBlank ==
    /\ \A n \in DOMAIN source : source[n].k # "blank"
    /\ Edited("blank_line", Len(source),
              SubSeq(source, 1, Len(source) - 1) \o <<TextLine(0, "blank", 0)>>
                 \o <<source[Len(source)]>>)

\* The blank line at i is removed.
RemoveBlank(i) ==
    /\ source[i].k = "blank"
    /\ Edited("blank_line", i, SubSeq(source, 1, i - 1) \o SubSeq(source, i + 1, Len(source)))

\* The literal of the first statement is replaced by another.
ChangeLiteral ==
    Edited("token", FirstStmt(source),
           [source EXCEPT ![FirstStmt(source)].tok = (@ + 1) % (MaxBody + 1)])

\* The literal of the first statement is put in parentheses, or taken out
\* of them.
ToggleParens ==
    Edited("token", FirstStmt(source), [source EXCEPT ![FirstStmt(source)].paren = ~@])

\* The words of the comment at line i are changed.
ChangeComment(i) ==
    /\ source[i].k = "comment"
    /\ Edited("token", i, [source EXCEPT ![i].tok = (@ + 1) % (MaxBody + 1)])

NextDigest ==
    \/ \E i \in DOMAIN source : ToggleTrailing(i)
    \/ InsertBlank
    \/ \E i \in DOMAIN source : RemoveBlank(i)
    \/ ChangeLiteral
    \/ ToggleParens
    \/ \E i \in DOMAIN source : ChangeComment(i)

SpecDigest == InitDigest /\ [][NextDigest]_vars

\* C20: the content digest of an artifact is the same before and after
\* trailing whitespace or a blank line is added to or removed from its
\* body, and differs after an edit that changes a token of its body.
C20_DigestFollowsTokensOnly ==
    [][(ops' = ops + 1) =>
        /\ last'.op \in {"trailing_whitespace", "blank_line"} => last'.ret[2] = last'.ret[1]
        /\ last'.op = "token" => last'.ret[2] # last'.ret[1]]_vars

\* ============================================= several edits of one file
\* a.py holds class A with method m and, after them, function g; each of the
\* three starts without a block, with the one-line block or with a
\* hand-written pending block.
StartFilesBlocks ==
    {[p \in Files |->
        IF p = F1
        THEN bA \o <<Line(0, "def", "A", 0)>>
             \o [n \in DOMAIN bm |-> [bm[n] EXCEPT !.indent = 1]]
             \o <<Line(1, "def", "m", 0)>>
             \o bg \o <<Line(0, "def", "g", 0)>>
        ELSE <<Line(0, "def", "f", 0)>>]
     : bA \in {<<>>, decorator_lines(NoKwargs, 0), decorator_lines(HandPending, 0)},
       bm \in {<<>>, decorator_lines(NoKwargs, 0), decorator_lines(HandPending, 0)},
       bg \in {<<>>, decorator_lines(HandPending, 0)}}

InitBlocks ==
    /\ files \in StartFilesBlocks
    /\ regfile = EmptyRegistryFile
    /\ now = 0
    /\ ops = 0
    /\ last = NoOp
    /\ codec = IdleCodec
    /\ policy = DEFAULT_POLICY
    /\ procs = NoProcs
    /\ source = NoSource
    /\ audit = NoAudit

\* The metadata a caller passes for an artifact: one that names the artifact
\* in its notes, or the empty record.
EditChoice(name, named) ==
    IF named THEN [EmptyMeta EXCEPT !.ai_composed = "gpt", !.notes = name] ELSE EmptyMeta

\* The lists of distinct elements of S, in every order.
Orders(S) ==
    {s \in UNION {[1..n -> S] : n \in 1..Cardinality(S)} :
        \A i, j \in DOMAIN s : i # j => s[i] # s[j]}

\* update_metadata_blocks is called once on file p with the artifacts named
\* in order, scanned from the file as it is, and metadata chosen per artifact.
UpdateBlocks(p, order, named) ==
    \E res \in {update_metadata_blocks(files[p],
                   [n \in DOMAIN order |->
                       [artifact |-> ArtifactOf(files, <<p, order[n]>>),
                        metadata |-> EditChoice(order[n], named[order[n]])]])} :
       /\ last.op = "init"
       /\ Step
       /\ files' = [files EXCEPT ![p] = res.lines]
       /\ last' = [op |-> "update_metadata_blocks", paths |-> <<p>>,
                   ret |-> <<res.changed>>,
                   written |-> IF res.changed THEN {p} ELSE {}, err |-> FALSE,
                   arg |-> [n \in DOMAIN order |->
                              [name |-> order[n], metadata |-> EditChoice(order[n], named[order[n]])]]]
       /\ UNCHANGED <<regfile, codec, policy, procs, source, audit>>

\* The annotate insertion pass is called on file p with the artifacts named
\* in order, scanned from the file as it is.
EnsureDecorators(p, order, ai_agent, default_notes) ==
    \E res \in {_ensure_metadata_decorators(files[p],
                   [n \in DOMAIN order |-> ArtifactOf(files, <<p, order[n]>>)],
                   ai_agent, default_notes, now)} :
       /\ last.op = "init"
       /\ Step
       /\ files' = [files EXCEPT ![p] = res.lines]
       /\ last' = [op |-> "_ensure_metadata_decorators", paths |-> <<p>>,
                   ret |-> <<res.changed>>,
                   written |-> IF res.changed THEN {p} ELSE {}, err |-> FALSE,
                   arg |-> [n \in DOMAIN order |->
                              [name |-> order[n],
                               metadata |-> annotated_metadata(ai_agent, default_notes,
                                                               now)]]]
       /\ UNCHANGED <<regfile, codec, policy, procs, source, audit>>

NextBlocks ==
    \/ \E order \in Orders({"A", "A.m", "g"}) :
          \E named \in [Range(order) -> BOOLEAN] : UpdateBlocks(F1, order, named)
    \/ \E order \in Orders({"A", "A.m", "g"}) : EnsureDecorators(F1, order, "gpt", "auto")

SpecBlocks == InitBlocks /\ [][NextBlocks]_vars

\* The edits a call was given, each with its artifact as scanned from the
\* lines the call started from.
EditsAsked(path, lines, arg) ==
    {[artifact |-> ArtifactOf([p \in {path} |-> lines], <<path, e.name>>),
      metadata |-> e.metadata] : e \in Range(arg)}

\* The file a set of edits asks for, read off the scan of the original
\* lines: at the first line of an edited block the new lines of that
\* artifact, nothing for the other lines of the block, and every other line
\* as it is.  An insertion puts the new lines in front of the artifact's
\* start line and edits no range.
RECURSIVE EditedFrom(_, _, _, _)
EditedFrom(lines, edits, inserting, i) ==
    IF i > Len(lines) THEN <<>>
    ELSE LET starting == {e \in edits :
                             IF inserting THEN e.artifact.start_line = i
                             ELSE /\ e.artifact.decorator.present
                                  /\ e.artifact.decorator.start_line = i}
             within == {e \in edits :
                           /\ ~inserting
                           /\ e.artifact.decorator.present
                           /\ e.artifact.decorator.start_line <= i
                           /\ i <= e.artifact.decorator.end_line}
         IN (IF starting = {} THEN <<>>
             ELSE With(CHOOSE e \in starting : TRUE, LAMBDA e :
                     format_metadata_decorator(e.metadata, e.artifact.indent)))
            \o (IF within = {} THEN <<lines[i]>> ELSE <<>>)
            \o EditedFrom(lines, edits, inserting, i + 1)

\* C21: for edits to distinct artifacts of one file (top-level or nested)
\* whose line numbers come from one scan of the original file,
\* update_metadata_blocks and the annotate insertion pass produce the file
\* in which each edited block range holds its artifact's newly encoded lines
\* and every other line is kept, in its original order, whatever the order
\* in which the edits were passed.
C21_EditsKeepOtherLines ==
    [][(last'.op \in {"update_metadata_blocks", "_ensure_metadata_decorators"}
        /\ ops' = ops + 1)
       => With(EditsAsked(F1, files[F1], last'.arg), LAMBDA edits :
             files'[F1] = EditedFrom(files[F1], edits,
                                     last'.op = "_ensure_metadata_decorators", 1))]_vars

\* Blocks of A and of its method m were replaced in one call that named A
\* first, by blocks of other lengths.
C21_Witness ==
    /\ last.op = "update_metadata_blocks"
    /\ Len(last.arg) >= 2
    /\ last.arg[1].name = "A"
    /\ last.arg[2].name = "A.m"
    /\ last.arg[1].metadata # EmptyMeta
    /\ last.arg[2].metadata # EmptyMeta
    /\ last.ret = <<TRUE>>
    /\ ArtifactOf(files, <<F1, "A">>).tags.notes = "A"
    /\ ArtifactOf(files, <<F1, "A.m">>).tags.notes = "A.m"

\* ================================================ content digest and blocks
\* C22: the content digest of an artifact depends only on the lines from its
\* definition line through its end line: a step that leaves those lines as
\* they were, whatever it does to the artifact's annotation block, leaves
\* the artifact's content digest as it was.
C22_DigestIgnoresAnnotation ==
    [][\A p \in Files :
          (Parses(files[p]) /\ Parses(files'[p])) =>
             \A key \in KeysIn(files, {p}) \cap KeysIn(files', {p}) :
                LET before == ArtifactOf(files, key)
                    after == ArtifactOf(files', key)
                IN SubSeq(files[p], before.lineno, before.end_lineno)
                      = SubSeq(files'[p], after.lineno, after.end_lineno)
                   => compute_artifact_digest(files[p], before)
                         = compute_artifact_digest(files'[p], after)]_vars

\* ================================================== a killed finalize run
\* One finalize invocation, taken statement by statement as in the
\* concurrent runs above, that the operating system may kill between the
\* rewriting of a source file and the saving of the registry; finalize is
\* then run again, to its end, on the same paths.
Idle == [pc |-> "idle"]

InitKilled ==
    /\ files \in StartFiles
    /\ regfile = EmptyRegistryFile
    /\ now = 1
    /\ ops = 0
    /\ last = NoOp
    /\ codec = IdleCodec
    /\ policy = DEFAULT_POLICY
    /\ procs = [p \in {1} |-> Idle]
    /\ source = NoSource
    /\ audit = NoAudit

\* The annotations of the artifacts of the given files that finalize would
\* take (finalize.py:50-52), by registry key.
Eligible(fs, paths) ==
    LET keys == {key \in KeysIn(fs, Range(paths)) : _finalizable(ArtifactOf(fs, key))}
    IN [key \in keys |-> ArtifactOf(fs, key).tags]

\* finalize(paths) is called: the invocation starts, and what was eligible
\* at that moment is noted.
CallFinalize(p, paths) ==
    /\ procs[p].pc = "idle"
    /\ Step
    /\ procs' = [procs EXCEPT ![p] =
                    [pc |-> "load", paths |-> paths, store |-> EmptyStore, ret |-> <<>>,
                     written |-> {}, t |-> 0, loaded_at |-> 0, saved_at |-> 0,
                     called_with |-> paths, eligible |-> Eligible(files, paths)]]
    /\ last' = [NoOp EXCEPT !.op = "call_finalize", !.paths = paths]
    /\ UNCHANGED <<files, regfile, codec, policy, source, audit>>

\* The process is killed inside finalize, after it has rewritten at least
\* one source file and before save_registry.
Kill(p) ==
    /\ procs[p].pc = "loop"
    /\ procs[p].written # {}
    /\ procs' = [procs EXCEPT ![p].pc = "killed"]
    /\ now' = now + 1
    /\ UNCHANGED <<files, regfile, ops, last, codec, policy, source, audit>>

\* finalize is run again on the paths of the killed invocation.
Rerun(p) ==
    /\ procs[p].pc = "killed"
    /\ Finalize(procs[p].called_with)

\* A reviewer certifies before finalize is called.
CertifyBefore(p, paths, reviewer, scrutiny, notes) ==
    /\ procs[p].pc = "idle"
    /\ Certify(paths, reviewer, scrutiny, notes, FALSE, "human")

NextKilled ==
    \/ \E paths \in PathChoices : \E notes \in {None, "ok"} :
          CertifyBefore(1, paths, "alice", "high", notes)
    \/ \E paths \in PathChoices : CallFinalize(1, paths)
    \/ LoadRegistry(1)
    \/ FinalizeFile(1)
    \/ SaveRegistry(1)
    \/ Kill(1)
    \/ Rerun(1)

SpecKilled == InitKilled /\ [][NextKilled]_vars

\* C23: when finalize was killed after rewriting source files and before
\* saving the registry, and finalize has then run again on the same paths,
\* the persisted registry holds an entry for every artifact that was
\* eligible before the first run, and the entry carries the certified
\* provenance of that artifact's annotation: certifier, scrutiny, composer,
\* notes and history.
C23_RerunLosesNothing ==
    (/\ 1 \in DOMAIN procs
     /\ procs[1].pc = "killed"
     /\ last.op = "finalize"
     /\ ~last.err)
    => \A key \in DOMAIN procs[1].eligible :
          /\ key \in ActiveKeys(regfile)
          /\ LET entry == EntryOf(regfile, key)
                 tags == procs[1].eligible[key]
             IN /\ entry.human_certified = tags.human_certified
                /\ entry.scrutiny = tags.scrutiny
                /\ entry.ai_composed = tags.ai_composed
                /\ entry.notes = tags.notes
                /\ entry.history = tags.history

\* ================================================================ audit log
\* The audit log is a sequence of lines [k, val]: k = "json" for a line
\* written by _write_records (val stands for the record), "malformed" for a
\* line json.loads rejects (val stands for its text) and "blank" for an
\* empty line.  An Optional[int] is <<>> for None and <<n>> for the number n.

\* lines[-limit:] of Python: a negative start counts from the end and is
\* clipped at the first line; -0 is 0, the start of the list.
tail_slice(lines, limit) ==
    LET start == IF -limit < 0
                 THEN (IF Len(lines) - limit < 0 THEN 0 ELSE Len(lines) - limit)
                 ELSE (IF -limit > Len(lines) THEN Len(lines) ELSE -limit)
    IN SubSeq(lines, start + 1, Len(lines))

\* The loop of read_audit_log: blank lines are passed over, json.loads of a
\* well-formed line is appended, a malformed line is logged and skipped.
RECURSIVE parse_entries(_)
parse_entries(lines) ==
    IF lines = <<>> THEN <<>>
    ELSE (IF Head(lines).k = "json" THEN <<Head(lines).val>> ELSE <<>>)
         \o parse_entries(Tail(lines))

\* audit.read_audit_log; a log that does not exist reads as no lines.
read_audit_log(log, limit) ==
    parse_entries(IF limit # <<>> /\ limit[1] >= 0 THEN tail_slice(log, limit[1]) ELSE log)

\* No source file is involved.
InitAudit ==
    /\ files = [p \in Files |-> NoFile]
    /\ regfile = EmptyRegistryFile
    /\ now = 0
    /\ ops = 0
    /\ last = NoOp
    /\ codec = IdleCodec
    /\ policy = DEFAULT_POLICY
    /\ procs = NoProcs
    /\ source = NoSource
    /\ audit = NoAudit

\* audit._write_records appends the line of one record.
WriteRecord ==
    /\ Step
    /\ audit' = Append(audit, [k |-> "json", val |-> now])
    /\ last' = [NoOp EXCEPT !.op = "_write_records"]
    /\ UNCHANGED <<files, regfile, codec, policy, procs, source>>

\* A line that is not a record gets into the log: a write cut short, or an
\* empty line.
Damage(k) ==
    /\ Step
    /\ audit' = Append(audit, [k |-> k, val |-> now])
    /\ last' = [NoOp EXCEPT !.op = "damage"]
    /\ UNCHANGED <<files, regfile, codec, policy, procs, source>>

\* read_audit_log(settings, limit) is called.
ReadAuditLog(limit) ==
    /\ Step
    /\ last' = [NoOp EXCEPT !.op = "read_audit_log",
                            !.ret = read_audit_log(audit, limit),
                            !.arg = limit]
    /\ UNCHANGED <<files, regfile, codec, policy, procs, source, audit>>

\* The limits a caller passes: None, or a number (audit show maps a
\* negative --limit to None).
Limits == {<<>>} \cup {<<n>> : n \in 0..3}

NextAudit ==
    \/ WriteRecord
    \/ \E k \in {"malformed", "blank"} : Damage(k)
    \/ \E limit \in Limits : ReadAuditLog(limit)

SpecAudit == InitAudit /\ [][NextAudit]_vars

\* The records of the well-formed lines among the last n lines of the log.
RecentEntries(log, n) ==
    LET from == IF n >= Len(log) THEN 1 ELSE Len(log) - n + 1
        recent == SubSeq(log, from, Len(log))
        wellformed == SelectSeq(recent, LAMBDA l : l.k = "json")
    IN [i \in DOMAIN wellformed |-> wellformed[i].val]

\* C24: read_audit_log with a limit n >= 0 returns at most n entries, those
\* of the n most recent lines in their original order (none for n = 0);
\* with no limit it returns all entries; a malformed line is skipped and the
\* well-formed lines are still returned.
C24_ReadReturnsMostRecent ==
    last.op = "read_audit_log" =>
        IF last.arg = <<>> THEN last.ret = RecentEntries(audit, Len(audit))
        ELSE /\ Len(last.ret) <= last.arg[1]
             /\ last.ret = RecentEntries(audit, last.arg[1])

\* ============================================== agents, results, history
\* C25: an artifact certified only by agents stays pending human
\* certification: a certify run with reviewer_kind = "agent", or a
\* certify_agent run, leaves every artifact that had no human certification
\* with human_certified absent or "pending", without a reviewer record of
\* kind "human", and not eligible for finalize.
C25_AgentOnlyStaysPending ==
    [][LET NoHuman(fs, key) ==
               LET artifact == ArtifactOf(fs, key)
                   written == WrittenKwargs(artifact)
               IN /\ ~Truthy(written.human_certified)
                     \/ Lower(written.human_certified) = "pending"
                  /\ \A n \in DOMAIN written.reviewers :
                        written.reviewers[n].kind # "human"
                  /\ ~_finalizable(artifact)
       IN (/\ last'.op \in {"certify_cmd", "certify_agent", "certify_agent_cmd"}
           /\ ops' = ops + 1
           /\ last'.arg[3] = "agent"
           /\ ~last'.err)
          => \A key \in KeysIn(files, Files) :
                NoHuman(files, key) => NoHuman(files', key)]_vars

\* C27: every artifact in the list certify returns was certified by this
\* call: it had an annotation block, and the block in the file now names
\* the reviewer as human_certified; an artifact skipped for want of a block
\* is not in the list.
C27_ReturnedWereCertified ==
    [][(/\ last'.op = "certify"
        /\ ops' = ops + 1
        /\ ~last'.err)
       => \A key \in Range(last'.ret) :
             /\ ArtifactOf(files, key).decorator.present
             /\ ArtifactOf(files', key).decorator.present
             /\ WrittenKwargs(ArtifactOf(files', key)).human_certified = last'.arg[1]]_vars

\* C28: certify adds its history entry at the front of the history list:
\* after certify, history[0] of a certified artifact is the new entry, with
\* the action "certified by <id> (<scrutiny>)" and the digest of the
\* certified record, and the entries that were in the list before certify
\* follow it in the same order.
C28_CertifyPrependsHistory ==
    [][(/\ last'.op = "certify"
        /\ ops' = ops + 1
        /\ ~last'.err)
       => \A key \in Range(last'.ret) :
             ArtifactOf(files, key).decorator.present =>
                LET before == ArtifactOf(files, key).tags
                    after == ArtifactOf(files', key).tags
                IN /\ after.history # <<>>
                   /\ after.history[1].action
                         = <<"certified by", last'.arg[1], from_string(last'.arg[2])>>
                   /\ after.history[1].digest = compute_digest(after)
                   /\ Tail(after.history) = before.history]_vars

\* ================================================== after a finalization
\* The repository after a first finalize: a.py holds class A with method m,
\* hand-certified or without an annotation, b.py holds function f,
\* hand-certified with or without the ai_composed keyword; finalize has run
\* on both files at time 0 and has saved the registry.
StartFilesFinalized ==
    {finalize([p \in Files |->
                  IF p = F1
                  THEN <<Line(0, "def", "A", 0)>> \o bm \o <<Line(1, "def", "m", 0)>>
                  ELSE bf \o <<Line(0, "def", "f", 0)>>],
              EmptyRegistryFile, <<F1, F2>>, 0)
     : bm \in {<<>>, decorator_lines(HandCertified, 1)},
       bf \in {decorator_lines(HandCertified, 0),
               decorator_lines([HandCertified EXCEPT !.ai_composed = None], 0)}}

InitFinalized ==
    /\ \E start \in StartFilesFinalized :
          /\ files = start.files
          /\ regfile = start.regfile
    /\ now = 1
    /\ ops = 0
    /\ last = NoOp
    /\ codec = IdleCodec
    /\ policy = DEFAULT_POLICY
    /\ procs = NoProcs
    /\ source = NoSource
    /\ audit = NoAudit

\* The runs after the first finalize, each on both files, and body edits.
NextFinalized ==
    \/ \E p \in Files : \E i \in DefLines(files[p]) : EditBody(p, i)
    \/ Annotate(<<F1, F2>>, "gpt", "auto")
    \/ Certify(<<F1, F2>>, "alice", "high", None, FALSE, "human")
    \/ Finalize(<<F1, F2>>)
    \/ Reconcile

SpecFinalized == InitFinalized /\ [][NextFinalized]_vars

\* The @certifai decorators above the definition at line i of a file.
BlocksOf(lines, i) ==
    {d \in _artifact_start_line(lines, i)..(i - 1) : lines[d].k \in {"open", "call"}}

\* C26: after any sequence of annotate, certify, finalize and reconcile
\* runs every artifact has at most one annotation block: annotate inserts
\* no block above an artifact that has one, be it an empty block or the
\* block reopen writes for an entry without ai_composed.
C26_AtMostOneBlock ==
    \A p \in Files : \A i \in DefLines(files[p]) : Cardinality(BlocksOf(files[p], i)) <= 1

\* ============================================ the lifecycle of an entry
\* C29: while a key stays in the active map of the persisted registry its
\* entry changes only by events appended to lifecycle_history; finalize
\* does not put a fresh entry in the place of an active one.
C29_ActiveEntryOnlyGrows ==
    [][\A key \in ActiveKeys(regfile) \cap ActiveKeys(regfile') :
          LET old == EntryOf(regfile, key)
              new == EntryOf(regfile', key)
          IN /\ [new EXCEPT !.lifecycle_history = <<>>]
                   = [old EXCEPT !.lifecycle_history = <<>>]
             /\ IsPrefix(old.lifecycle_history, new.lifecycle_history)]_vars

\* C30: the lifecycle is cyclic and certification is redone after a reopen.
\* For an artifact that reconcile has reopened (archived and no longer
\* active): reconcile leaves it without a human certification; until a
\* certify run no step gives it one and finalize creates no entry for it;
\* a certify run on its file certifies it; and finalize then creates a new
\* active entry for it, holding the content digest of the code as it is
\* now, which is not the digest of the archived entry.
C30_RecertifyAfterReopen ==
    [][LET Reopened(rf, key) == key \notin ActiveKeys(rf) /\ ArchiveOf(rf, key) # <<>>
           Uncertified(fs, key) ==
               LET id == WrittenKwargs(ArtifactOf(fs, key)).human_certified
               IN ~Truthy(id) \/ Lower(id) = "pending"
       IN ops' = ops + 1 =>
          \A key \in KeysIn(files, Files) \cap KeysIn(files', Files) :
             /\ (last'.op = "reconcile" /\ key \in ActiveKeys(regfile)
                 /\ Reopened(regfile', key))
                => Uncertified(files', key)
             /\ (Reopened(regfile, key) /\ Uncertified(files, key) /\ last'.op # "certify")
                => (key \notin ActiveKeys(regfile') /\ Uncertified(files', key))
             /\ (Reopened(regfile, key) /\ last'.op = "certify" /\ ~last'.err
                 /\ key[1] \in Range(last'.paths))
                => ~Uncertified(files', key)
             /\ (Reopened(regfile, key) /\ ~Uncertified(files, key)
                 /\ last'.op = "finalize" /\ ~last'.err /\ key[1] \in Range(last'.paths))
                => /\ key \in ActiveKeys(regfile')
                   /\ EntryOf(regfile', key).digest
                         = compute_artifact_digest(files[key[1]], ArtifactOf(files, key))
                   /\ \A n \in DOMAIN ArchiveOf(regfile, key) :
                         EntryOf(regfile', key).digest
                            # ArchiveOf(regfile, key)[n].old_digest]_vars

\* f was finalized, its body was changed, reconcile reopened it, alice
\* certified it again and finalize has created its new entry.
C30_Witness ==
    /\ last.op = "finalize"
    /\ <<F2, "f">> \in Range(last.ret)
    /\ <<F2, "f">> \in ActiveKeys(regfile)
    /\ ArchiveOf(regfile, <<F2, "f">>) # <<>>
    /\ BodyOf(files, <<F2, "f">>) = << <<"f", 1>> >>
    /\ EntryOf(regfile, <<F2, "f">>).human_certified = "alice"
====
